---- MODULE Spec2Model ----
(* Foxlight core: DependencyGraph (dependency-graph.ts), the component      *)
(* cross-referencer (component-detector.ts) and ComponentRegistry with its   *)
(* snapshot / diff machinery (registry.ts), modelled as state machines.      *)
(* JavaScript Map and Set values are kept as sequences in insertion order,   *)
(* because every loop of the source iterates them in that order.             *)
EXTENDS Integers, Sequences, FiniteSets, TLC

VARIABLES
    nodes,      \* DependencyGraph.nodes: Map<string, GraphNode>, insertion order
    edgesAdded, \* history: the (source, target) pairs passed to addEdge so far
    gRet,       \* result of the last DependencyGraph query, "none" after a mutation
    xIn,        \* the ComponentInfo[] first handed to crossReferenceComponents
    xPrev,      \* the list as it was before the latest application
    xOut,       \* the list as it is now (the function mutates it in place)
    xRuns,      \* number of applications so far
    regs,       \* the ComponentRegistry instances: components, imports, bundleInfo, health
    snaps,      \* the ProjectSnapshot objects returned by createSnapshot and still held
    rRet,       \* result of the last ComponentRegistry call, "none" after other calls
    rLive,      \* history: per registry and id, the record last added and not removed
                \* or cleared since
    dBase,      \* the base ProjectSnapshot handed to ComponentRegistry.diff
    dHead,      \* the head ProjectSnapshot handed to ComponentRegistry.diff
    dRet,       \* the SnapshotDiff returned last
    sDiff,      \* the SnapshotDiff handed to hasSignificantChanges
    sRet,       \* what hasSignificantChanges returned last
    ciFiles,    \* the snapshot files of the working directory, by path
    ciLast,     \* what the latest runCI did
    ciPrev,     \* what the runCI before it did
    ciRuns,     \* number of runCI runs so far (the clock behind Date.now())
    tFiles,     \* SnapshotStore: the snapshot files of snapshotsDir, contents by file name
    tManifest,  \* SnapshotStore: manifest.json
    tClock,     \* the clock behind new Date() in saveSnapshot
    tLast,      \* history: the data handed to the latest saveSnapshot call
    tRet,       \* result of the last SnapshotStore call
    nOrder,     \* the order of the listing the platform is asked for: "asc" or "desc"
    nNotes,     \* the notes (comments) of the merge request (PR), in creation order
    nCall,      \* the postMRComment (postPRComment) call in progress
    nAllOk,     \* history: every listing request so far succeeded
    nLast,      \* what the latest completed call did
    nCalls,     \* number of completed calls
    kRun,       \* the detectDeadCode call: position, call stack and report so far
    hHeap,      \* the ComponentInfo objects allocated so far; a reference is an index
    hComponents,\* ComponentRegistry.components as a Map from id to object reference
    hSnap,      \* the ProjectSnapshot held: the references in its components array
    hAtCreation \* history: the component records as createSnapshot saw them

(***************************************************************************)
(* Bounds                                                                  *)
(***************************************************************************)
NodeIds == {"a", "b", "c"}      \* module ids offered to addEdge
MaxEdges == 3                   \* distinct edges a graph may hold
MaxTop == 2                     \* length of the allTopLevel argument
XIds == {"A", "B"}              \* component ids of a list handed to the cross-referencer
XNames == {"B", "C", "D"}       \* component names ("B" is also an id)
XChildStr == {"", "A", "B", "C"} \* entries of children on entry
XUsedStr == {"A"}               \* entries of usedBy on entry
MaxChildren == 2                \* length of children on entry
MaxUsedBy == 1                  \* length of usedBy on entry
MaxRuns == 2                    \* applications of crossReferenceComponents
RegIds == {"R", "T"}            \* registry instances
MaxImports == 1                 \* length of a registry's imports array
MaxBatch == 2                   \* length of the array handed to addComponents / addImports
MaxSnaps == 1                   \* snapshots held at a time
MaxKids == 2                    \* length of children of a registered component
MaxBundleDiff == 1              \* length of the bundleDiff handed to hasSignificantChanges
MaxHealthDiff == 1              \* length of the healthDiff handed to hasSignificantChanges
MaxCIRuns == 2                  \* runCI runs in one working directory
MaxSaves == 5                   \* saveSnapshot calls on one store
PageSize == 2                   \* notes in one page of a listing (GitLab 20, GitHub 30)
MaxOtherNotes == 3              \* notes other people write on the merge request
MaxCalls == 3                   \* postMRComment calls on the merge request
MaxDepth == 4                   \* isComponentUsed frames on the call stack
MaxObjects == 3                 \* ComponentInfo objects allocated by the detector
MaxLongSaves == 33              \* saveSnapshot calls on one store, past the rotation limit
MaxLimit == 2                   \* the limit handed to loadSnapshots

(***************************************************************************)
(* Generic helpers for arrays, Sets and Maps                               *)
(***************************************************************************)
Range(s) == {s[i] : i \in 1..Len(s)}

\* Array.prototype.indexOf, 1-based; 0 stands for -1
RECURSIVE IndexFrom(_, _, _)
IndexFrom(s, x, i) ==
    IF i > Len(s) THEN 0
    ELSE IF s[i] = x THEN i
    ELSE IndexFrom(s, x, i + 1)

IndexOf(s, x) == IndexFrom(s, x, 1)

\* Set.prototype.add on an insertion-ordered set
SetAdd(s, x) == IF x \in Range(s) THEN s ELSE Append(s, x)

\* Set.prototype.delete / Array.prototype.filter(y => y !== x)
RECURSIVE Without(_, _)
Without(s, x) ==
    IF s = <<>> THEN <<>>
    ELSE IF Head(s) = x THEN Without(Tail(s), x)
    ELSE <<Head(s)>> \o Without(Tail(s), x)

\* Array.prototype.filter(y => !drop.has(y))
RECURSIVE FilterOut(_, _)
FilterOut(s, drop) ==
    IF s = <<>> THEN <<>>
    ELSE IF Head(s) \in drop THEN FilterOut(Tail(s), drop)
    ELSE <<Head(s)>> \o FilterOut(Tail(s), drop)

NoDup(s) == \A i, j \in 1..Len(s) : s[i] = s[j] => i = j

SeqsUpTo(S, n) == UNION {[1..k -> S] : k \in 0..n}

(***************************************************************************)
(* DependencyGraph                                                         *)
(***************************************************************************)
NodeKeys(ns) == [i \in 1..Len(ns) |-> ns[i].id]

HasNode(ns, id) == \E i \in 1..Len(ns) : ns[i].id = id

\* this.nodes.get(id), for an id that is present
NodeGet(ns, id) == ns[CHOOSE i \in 1..Len(ns) : ns[i].id = id]

\* ensureNode without the has() test
ensureNode_noTest(ns, id) ==
    Append(ns, [id |-> id, outgoing |-> <<>>, incoming |-> <<>>])

ensureNode(ns, id) ==
    IF ~HasNode(ns, id)
    THEN Append(ns, [id |-> id, outgoing |-> <<>>, incoming |-> <<>>])
    ELSE ns

\* addEdge with the two adjacency sets swapped
addEdge_swapped(ns, source, target) ==
    LET n1 == ensureNode(ensureNode(ns, source), target)
        n2 == [i \in 1..Len(n1) |->
                 IF n1[i].id = source
                 THEN [n1[i] EXCEPT !.incoming = SetAdd(@, target)]
                 ELSE n1[i]]
    IN  [i \in 1..Len(n2) |->
           IF n2[i].id = target
           THEN [n2[i] EXCEPT !.outgoing = SetAdd(@, source)]
           ELSE n2[i]]

addEdge(ns, source, target) ==
    LET n1 == ensureNode(ensureNode(ns, source), target)
        n2 == [i \in 1..Len(n1) |->
                 IF n1[i].id = source
                 THEN [n1[i] EXCEPT !.outgoing = SetAdd(@, target)]
                 ELSE n1[i]]
    IN  [i \in 1..Len(n2) |->
           IF n2[i].id = target
           THEN [n2[i] EXCEPT !.incoming = SetAdd(@, source)]
           ELSE n2[i]]

\* static fromImports(edges): addEdge for each edge, on a new graph
RECURSIVE fromImports(_, _)
fromImports(ns, edges) ==
    IF edges = <<>> THEN ns
    ELSE fromImports(addEdge(ns, Head(edges).source, Head(edges).target), Tail(edges))

getDependencies(ns, id) == IF HasNode(ns, id) THEN NodeGet(ns, id).outgoing ELSE <<>>

getDependents(ns, id) == IF HasNode(ns, id) THEN NodeGet(ns, id).incoming ELSE <<>>

nodeCount(ns) == Len(ns)

RECURSIVE SumOutgoing(_, _)
SumOutgoing(ns, i) ==
    IF i > Len(ns) THEN 0 ELSE Len(ns[i].outgoing) + SumOutgoing(ns, i + 1)

edgeCount(ns) == SumOutgoing(ns, 1)

\* for (const dep of adjacency) if (!visited.has(dep)) queue.push(dep)
RECURSIVE PushUnvisited(_, _, _)
PushUnvisited(queue, adj, visited) ==
    IF adj = <<>> THEN queue
    ELSE PushUnvisited(
           IF Head(adj) \in Range(visited) THEN queue ELSE Append(queue, Head(adj)),
           Tail(adj), visited)

\* the while (queue.length > 0) loop shared by both closures; dir selects
\* node.outgoing or node.incoming
RECURSIVE ClosureLoop(_, _, _, _)
ClosureLoop(ns, dir, queue, visited) ==
    IF queue = <<>> THEN visited
    ELSE LET current == Head(queue)
             rest == Tail(queue)
         IN  IF current \in Range(visited) THEN ClosureLoop(ns, dir, rest, visited)
             ELSE LET v1 == Append(visited, current)
                  IN  IF ~HasNode(ns, current) THEN ClosureLoop(ns, dir, rest, v1)
                      ELSE LET adj == IF dir = "outgoing"
                                      THEN NodeGet(ns, current).outgoing
                                      ELSE NodeGet(ns, current).incoming
                           IN  ClosureLoop(ns, dir, PushUnvisited(rest, adj, v1), v1)

getImpactedModules(ns, id) == Without(ClosureLoop(ns, "incoming", <<id>>, <<>>), id)

\* getTransitiveDependencies without the closing visited.delete(id)
getTransitiveDependencies_noDelete(ns, id) == ClosureLoop(ns, "outgoing", <<id>>, <<>>)

getTransitiveDependencies(ns, id) == Without(ClosureLoop(ns, "outgoing", <<id>>, <<>>), id)

\* detectCycles: st = [cycles, visited, inStack, stack] is the closure state of dfs
RECURSIVE dfs(_, _, _)
RECURSIVE dfsEach(_, _, _)
\* dfs with the visited test placed before the inStack test
dfs_visitedFirst(ns, st, nodeId) ==
    IF nodeId \in st.visited THEN st
    ELSE IF nodeId \in st.inStack
    THEN LET cycleStart == IndexOf(st.stack, nodeId)
         IN  IF cycleStart # 0
             THEN [st EXCEPT !.cycles =
                     Append(@, SubSeq(st.stack, cycleStart, Len(st.stack)) \o <<nodeId>>)]
             ELSE st
    ELSE LET st1 == [st EXCEPT !.visited = @ \cup {nodeId},
                               !.inStack = @ \cup {nodeId},
                               !.stack = Append(@, nodeId)]
             st2 == IF HasNode(ns, nodeId)
                    THEN dfsEach(ns, st1, NodeGet(ns, nodeId).outgoing)
                    ELSE st1
         IN  [st2 EXCEPT !.stack = SubSeq(@, 1, Len(@) - 1),
                         !.inStack = @ \ {nodeId}]

\* dfs without the stack.pop() after the loop over the dependencies
dfs_noPop(ns, st, nodeId) ==
    IF nodeId \in st.inStack
    THEN LET cycleStart == IndexOf(st.stack, nodeId)
         IN  IF cycleStart # 0
             THEN [st EXCEPT !.cycles =
                     Append(@, SubSeq(st.stack, cycleStart, Len(st.stack)) \o <<nodeId>>)]
             ELSE st
    ELSE IF nodeId \in st.visited THEN st
    ELSE LET st1 == [st EXCEPT !.visited = @ \cup {nodeId},
                               !.inStack = @ \cup {nodeId},
                               !.stack = Append(@, nodeId)]
             st2 == IF HasNode(ns, nodeId)
                    THEN dfsEach(ns, st1, NodeGet(ns, nodeId).outgoing)
                    ELSE st1
         IN  [st2 EXCEPT !.inStack = @ \ {nodeId}]

\* dfs reporting the bare stack slice, without the closing nodeId
dfs_sliceOnly(ns, st, nodeId) ==
    IF nodeId \in st.inStack
    THEN LET cycleStart == IndexOf(st.stack, nodeId)
         IN  IF cycleStart # 0
             THEN [st EXCEPT !.cycles =
                     Append(@, SubSeq(st.stack, cycleStart, Len(st.stack)))]
             ELSE st
    ELSE IF nodeId \in st.visited THEN st
    ELSE LET st1 == [st EXCEPT !.visited = @ \cup {nodeId},
                               !.inStack = @ \cup {nodeId},
                               !.stack = Append(@, nodeId)]
             st2 == IF HasNode(ns, nodeId)
                    THEN dfsEach(ns, st1, NodeGet(ns, nodeId).outgoing)
                    ELSE st1
         IN  [st2 EXCEPT !.stack = SubSeq(@, 1, Len(@) - 1),
                         !.inStack = @ \ {nodeId}]

dfs(ns, st, nodeId) ==
    IF nodeId \in st.inStack
    THEN LET cycleStart == IndexOf(st.stack, nodeId)
         IN  IF cycleStart # 0
             THEN [st EXCEPT !.cycles =
                     Append(@, SubSeq(st.stack, cycleStart, Len(st.stack)) \o <<nodeId>>)]
             ELSE st
    ELSE IF nodeId \in st.visited THEN st
    ELSE LET st1 == [st EXCEPT !.visited = @ \cup {nodeId},
                               !.inStack = @ \cup {nodeId},
                               !.stack = Append(@, nodeId)]
             st2 == IF HasNode(ns, nodeId)
                    THEN dfsEach(ns, st1, NodeGet(ns, nodeId).outgoing)
                    ELSE st1
         IN  [st2 EXCEPT !.stack = SubSeq(@, 1, Len(@) - 1),
                         !.inStack = @ \ {nodeId}]

dfsEach(ns, st, deps) ==
    IF deps = <<>> THEN st
    ELSE dfsEach(ns, dfs(ns, st, Head(deps)), Tail(deps))

RECURSIVE detectCyclesFrom(_, _, _)
detectCyclesFrom(ns, st, keys) ==
    IF keys = <<>> THEN st
    ELSE detectCyclesFrom(ns,
           IF Head(keys) \notin st.visited THEN dfs(ns, st, Head(keys)) ELSE st,
           Tail(keys))

detectCycles(ns) ==
    detectCyclesFrom(ns,
        [cycles |-> <<>>, visited |-> {}, inStack |-> {}, stack |-> <<>>],
        NodeKeys(ns)).cycles

\* topologicalSort: Kahn's algorithm
InitialInDegree(ns) == [id \in Range(NodeKeys(ns)) |-> Len(NodeGet(ns, id).incoming)]

RECURSIVE ZeroDegree(_, _)
ZeroDegree(keys, inDegree) ==
    IF keys = <<>> THEN <<>>
    ELSE (IF inDegree[Head(keys)] = 0 THEN <<Head(keys)>> ELSE <<>>)
         \o ZeroDegree(Tail(keys), inDegree)

\* the for (const dep of node.outgoing) loop; s = [inDegree, queue]
RECURSIVE Relax(_, _)
Relax(s, deps) ==
    IF deps = <<>> THEN s
    ELSE LET dep == Head(deps)
             newDegree == (IF dep \in DOMAIN s.inDegree THEN s.inDegree[dep] ELSE 1) - 1
             inDeg1 == [d \in DOMAIN s.inDegree \cup {dep} |->
                          IF d = dep THEN newDegree ELSE s.inDegree[d]]
         IN  Relax([inDegree |-> inDeg1,
                    queue |-> IF newDegree = 0 THEN Append(s.queue, dep) ELSE s.queue],
                   Tail(deps))

RECURSIVE KahnLoop(_, _, _)
KahnLoop(ns, s, result) ==
    IF s.queue = <<>> THEN result
    ELSE LET current == Head(s.queue)
             s1 == [s EXCEPT !.queue = Tail(@)]
             r1 == Append(result, current)
         IN  IF ~HasNode(ns, current) THEN KahnLoop(ns, s1, r1)
             ELSE KahnLoop(ns, Relax(s1, NodeGet(ns, current).outgoing), r1)

\* null is [isNull |-> TRUE]; a sorted array is [isNull |-> FALSE, value |-> array]
topologicalSort(ns) ==
    LET inDegree == InitialInDegree(ns)
        result == KahnLoop(ns,
                    [inDegree |-> inDegree, queue |-> ZeroDegree(NodeKeys(ns), inDegree)],
                    <<>>)
    IN  IF Len(result) = Len(ns)
        THEN [isNull |-> FALSE, value |-> result]
        ELSE [isNull |-> TRUE, value |-> <<>>]

\* getSharedDependencies testing membership in the direct dependencies of idB
getSharedDependencies_directB(ns, idA, idB) ==
    LET depsA == getTransitiveDependencies(ns, idA)
        depsB == getDependencies(ns, idB)
    IN  FilterOut(depsA, Range(depsA) \ Range(depsB))

getSharedDependencies(ns, idA, idB) ==
    LET depsA == getTransitiveDependencies(ns, idA)
        depsB == getTransitiveDependencies(ns, idB)
    IN  FilterOut(depsA, Range(depsA) \ Range(depsB))

RECURSIVE OtherDeps(_, _, _)
\* OtherDeps collecting only the direct dependencies of the other ids
OtherDeps_direct(ns, id, allTopLevel) ==
    IF allTopLevel = <<>> THEN {}
    ELSE (IF Head(allTopLevel) = id THEN {}
          ELSE Range(getDependencies(ns, Head(allTopLevel))))
         \cup OtherDeps(ns, id, Tail(allTopLevel))

OtherDeps(ns, id, allTopLevel) ==
    IF allTopLevel = <<>> THEN {}
    ELSE (IF Head(allTopLevel) = id THEN {}
          ELSE Range(getTransitiveDependencies(ns, Head(allTopLevel))))
         \cup OtherDeps(ns, id, Tail(allTopLevel))

getExclusiveDependencies(ns, id, allTopLevel) ==
    FilterOut(getTransitiveDependencies(ns, id), OtherDeps(ns, id, allTopLevel))

(***************************************************************************)
(* Cross-referencer (component-detector.ts)                                *)
(***************************************************************************)
\* byName is a Map from name to the position of the component object in the list
\* byName.set keeping an entry that is already present
MapSet_keepFirst(m, k, v) == IF k \in DOMAIN m THEN m ELSE [x \in DOMAIN m \cup {k} |-> IF x = k THEN v ELSE m[x]]

\* Map.prototype.set
MapSet(m, k, v) == [x \in DOMAIN m \cup {k} |-> IF x = k THEN v ELSE m[x]]

EmptyMap == [x \in {} |-> 0]

RECURSIVE BuildByName(_, _, _)
BuildByName(components, i, byName) ==
    IF i > Len(components) THEN byName
    ELSE BuildByName(components, i + 1, MapSet(byName, components[i].name, i))

\* child.usedBy.push(comp.id) without the includes test
PushUsedBy_noDedup(components, byName, compId, childName) ==
    IF childName \in DOMAIN byName
    THEN [components EXCEPT ![byName[childName]].usedBy = Append(@, compId)]
    ELSE components

\* body of the inner loop of the first pass
PushUsedBy(components, byName, compId, childName) ==
    IF childName \in DOMAIN byName /\ compId \notin Range(components[byName[childName]].usedBy)
    THEN [components EXCEPT ![byName[childName]].usedBy = Append(@, compId)]
    ELSE components

RECURSIVE UsedByInner(_, _, _, _)
UsedByInner(components, byName, compId, childNames) ==
    IF childNames = <<>> THEN components
    ELSE UsedByInner(PushUsedBy(components, byName, compId, Head(childNames)),
                     byName, compId, Tail(childNames))

RECURSIVE UsedByPass(_, _, _)
UsedByPass(components, byName, i) ==
    IF i > Len(components) THEN components
    ELSE UsedByPass(UsedByInner(components, byName, components[i].id, components[i].children),
                    byName, i + 1)

\* (name) => byName.get(name)?.name ?? name : the name is kept
ResolveName_keepName(components, byName, name) ==
    IF name \in DOMAIN byName THEN components[byName[name]].name ELSE name

\* (name) => byName.get(name)?.id ?? name
ResolveName(components, byName, name) ==
    IF name \in DOMAIN byName THEN components[byName[name]].id ELSE name

\* comp.children.map(...).filter(Boolean): the empty string is the only falsy string
RECURSIVE ResolveChildren(_, _, _)
ResolveChildren(components, byName, children) ==
    IF children = <<>> THEN <<>>
    ELSE LET r == ResolveName(components, byName, Head(children))
         IN  (IF r = "" THEN <<>> ELSE <<r>>)
             \o ResolveChildren(components, byName, Tail(children))

crossReferenceComponents(components) ==
    LET byName == BuildByName(components, 1, EmptyMap)
        pass1 == UsedByPass(components, byName, 1)
    IN  [i \in 1..Len(pass1) |->
           [pass1[i] EXCEPT !.children = ResolveChildren(pass1, byName, @)]]

(***************************************************************************)
(* ComponentRegistry (registry.ts)                                         *)
(***************************************************************************)
\* A Map is a sequence of entries [k, v] in insertion order.
MapHas(m, k) == \E i \in 1..Len(m) : m[i].k = k

\* Map.prototype.get for a key that is present
MapGet(m, k) == m[CHOOSE i \in 1..Len(m) : m[i].k = k].v

\* Map.prototype.set: an existing key keeps its position
MapPut(m, k, v) ==
    IF MapHas(m, k)
    THEN [i \in 1..Len(m) |-> IF m[i].k = k THEN [k |-> k, v |-> v] ELSE m[i]]
    ELSE Append(m, [k |-> k, v |-> v])

RECURSIVE MapDelete(_, _)
MapDelete(m, k) ==
    IF m = <<>> THEN <<>>
    ELSE IF Head(m).k = k THEN Tail(m)
    ELSE <<Head(m)>> \o MapDelete(Tail(m), k)

\* Array.from(map.values())
MapValues(m) == [i \in 1..Len(m) |-> m[i].v]

NewRegistry == [components |-> <<>>, imports |-> <<>>, bundleInfo |-> <<>>, health |-> <<>>]

\* addComponent pushing onto a list instead of setting a Map key
addComponent_push(reg, component) ==
    [reg EXCEPT !.components = Append(@, [k |-> component.id, v |-> component])]

addComponent(reg, component) ==
    [reg EXCEPT !.components = MapPut(@, component.id, component)]

RECURSIVE addComponents(_, _)
addComponents(reg, components) ==
    IF components = <<>> THEN reg
    ELSE addComponents(addComponent(reg, Head(components)), Tail(components))

\* undefined is [isNull |-> TRUE]
getComponent(reg, id) ==
    IF MapHas(reg.components, id)
    THEN [isNull |-> FALSE, value |-> MapGet(reg.components, id)]
    ELSE [isNull |-> TRUE]

getAllComponents(reg) == MapValues(reg.components)

hasComponent(reg, id) == MapHas(reg.components, id)

\* removeComponent dropping the oldest entry when id is present
removeComponent_oldest(reg, id) ==
    [reg EXCEPT !.components = IF MapHas(@, id) THEN Tail(@) ELSE @]

removeComponent(reg, id) == [reg EXCEPT !.components = MapDelete(@, id)]

size(reg) == Len(reg.components)

addImport(reg, edge) == [reg EXCEPT !.imports = Append(@, edge)]

addImports(reg, edges) == [reg EXCEPT !.imports = @ \o edges]

setBundleInfo(reg, info) == [reg EXCEPT !.bundleInfo = MapPut(@, info.componentId, info)]

getAllBundleInfo(reg) == MapValues(reg.bundleInfo)

setHealth(reg, h) == [reg EXCEPT !.health = MapPut(@, h.componentId, h)]

getAllHealth(reg) == MapValues(reg.health)

RECURSIVE LookupPresent(_, _)
\* ids.map((x) => this.components.get(x)) without the filter
LookupPresent_noFilter(reg, ids) ==
    IF ids = <<>> THEN <<>>
    ELSE <<getComponent(reg, Head(ids))>> \o LookupPresent(reg, Tail(ids))

\* ids.map((x) => this.components.get(x)).filter((c) => c !== undefined);
\* an entry is kept as [isNull |-> FALSE, value |-> component]
LookupPresent(reg, ids) ==
    IF ids = <<>> THEN <<>>
    ELSE (IF getComponent(reg, Head(ids)).isNull THEN <<>>
          ELSE <<getComponent(reg, Head(ids))>>)
         \o LookupPresent(reg, Tail(ids))

getConsumers(reg, id) ==
    IF getComponent(reg, id).isNull THEN <<>>
    ELSE LookupPresent(reg, getComponent(reg, id).value.usedBy)

\* ComponentRegistry.getDependents (DependencyGraph has a getDependents too)
ComponentRegistry_getDependents(reg, id) ==
    IF getComponent(reg, id).isNull THEN <<>>
    ELSE LookupPresent(reg, getComponent(reg, id).value.children)

\* this.getAllComponents().filter((c) => c.usedBy.length === 0)
getRootComponents(reg) ==
    LET noParents(c) == Len(c.usedBy) = 0
    IN  SelectSeq(getAllComponents(reg), noParents)

\* this.getAllComponents().filter((c) => c.children.length === 0)
getLeafComponents(reg) ==
    LET noChildren(c) == Len(c.children) = 0
    IN  SelectSeq(getAllComponents(reg), noChildren)

\* for (const childId of component.children) if (!visited.has(childId)) queue.push(childId)
RECURSIVE PushChildren(_, _, _)
PushChildren(queue, children, visited) ==
    IF children = <<>> THEN queue
    ELSE PushChildren(
           IF Head(children) \in visited THEN queue ELSE Append(queue, Head(children)),
           Tail(children), visited)

\* the while (queue.length > 0) loop of getSubtree; steps counts its iterations
RECURSIVE SubtreeLoop(_, _, _, _, _)
\* the loop without the visited test on the dequeued id
SubtreeLoop_noVisitedTest(reg, queue, visited, result, steps) ==
    IF queue = <<>> THEN [result |-> result, steps |-> steps]
    ELSE LET currentId == Head(queue)
             v1 == visited \cup {currentId}
         IN  IF ~MapHas(reg.components, currentId)
             THEN SubtreeLoop(reg, Tail(queue), v1, result, steps + 1)
             ELSE LET component == MapGet(reg.components, currentId)
                  IN  SubtreeLoop(reg, PushChildren(Tail(queue), component.children, v1),
                                  v1, Append(result, component), steps + 1)

SubtreeLoop(reg, queue, visited, result, steps) ==
    IF queue = <<>> THEN [result |-> result, steps |-> steps]
    ELSE LET currentId == Head(queue)
         IN  IF currentId \in visited
             THEN SubtreeLoop(reg, Tail(queue), visited, result, steps + 1)
             ELSE LET v1 == visited \cup {currentId}
                  IN  IF ~MapHas(reg.components, currentId)
                      THEN SubtreeLoop(reg, Tail(queue), v1, result, steps + 1)
                      ELSE LET component == MapGet(reg.components, currentId)
                           IN  SubtreeLoop(reg,
                                   PushChildren(Tail(queue), component.children, v1),
                                   v1, Append(result, component), steps + 1)

getSubtree(reg, id) == SubtreeLoop(reg, <<id>>, {}, <<>>, 0).result

clear(reg) == [components |-> <<>>, imports |-> <<>>, bundleInfo |-> <<>>, health |-> <<>>]

\* An imports array held by a snapshot is either an array of its own
\* (alias = "none") or the very array object of registry `alias`.
\* getAllImports returning this.imports itself instead of a copy
getAllImports_shared(r) == [alias |-> r, items |-> <<>>]

\* [...this.imports]
getAllImports(r) == [alias |-> "none", items |-> regs[r].imports]

\* the elements of an imports array as they are now
ArrayItems(a) == IF a.alias = "none" THEN a.items ELSE regs[a.alias].imports

createSnapshot(r, commitSha, branch) ==
    [commitSha |-> commitSha,
     branch |-> branch,
     components |-> getAllComponents(regs[r]),
     imports |-> getAllImports(r),
     bundleInfo |-> getAllBundleInfo(regs[r]),
     health |-> getAllHealth(regs[r])]

RECURSIVE SetEach(_, _, _)
SetEach(m, records, i) ==
    IF i > Len(records) THEN m
    ELSE SetEach(MapPut(m, records[i].componentId, records[i]), records, i + 1)

\* loadSnapshot without the leading this.clear()
loadSnapshot_noClear(reg, snapshot) ==
    LET r1 == addImports(addComponents(reg, snapshot.components), ArrayItems(snapshot.imports))
    IN  [r1 EXCEPT !.bundleInfo = SetEach(@, snapshot.bundleInfo, 1),
                   !.health = SetEach(@, snapshot.health, 1)]

loadSnapshot(reg, snapshot) ==
    LET r0 == clear(reg)
        r1 == addImports(addComponents(r0, snapshot.components), ArrayItems(snapshot.imports))
    IN  [r1 EXCEPT !.bundleInfo = SetEach(@, snapshot.bundleInfo, 1),
                   !.health = SetEach(@, snapshot.health, 1)]

\* this.imports = [] leaves the old array object to the snapshots that hold it
RECURSIVE Detach(_, _)
Detach(ss, r) ==
    IF ss = <<>> THEN <<>>
    ELSE <<IF Head(ss).imports.alias = r
           THEN [Head(ss) EXCEPT !.imports = [alias |-> "none", items |-> regs[r].imports]]
           ELSE Head(ss)>> \o Detach(Tail(ss), r)

(***************************************************************************)
(* Snapshot diff (registry.ts)                                             *)
(***************************************************************************)
PropNames(props) == {props[i].name : i \in 1..Len(props)}

\* base.props.find((p) => p.name === name), for a name that is present
FindProp(props, name) == props[CHOOSE i \in 1..Len(props) :
                                 props[i].name = name /\ \A j \in 1..(i - 1) : props[j].name # name]

\* props.filter((p) => !other.has(p.name)).map((p) => p.name)
RECURSIVE NamesNotIn(_, _)
NamesNotIn(props, other) ==
    IF props = <<>> THEN <<>>
    ELSE (IF Head(props).name \in other THEN <<>> ELSE <<Head(props).name>>)
         \o NamesNotIn(Tail(props), other)

RECURSIVE PropsModified(_, _)
PropsModified(baseProps, headProps) ==
    IF headProps = <<>> THEN <<>>
    ELSE LET headProp == Head(headProps)
         IN  (IF headProp.name \in PropNames(baseProps)
                 /\ (FindProp(baseProps, headProp.name).type # headProp.type
                     \/ FindProp(baseProps, headProp.name).required # headProp.required)
              THEN <<headProp.name>> ELSE <<>>)
             \o PropsModified(baseProps, Tail(headProps))

\* diffComponent without the hasChanges test
diffComponent_noNull(base, head) ==
    [isNull |-> FALSE,
     componentId |-> head.id,
     changes |->
        (IF Len(base.children) # Len(head.children) THEN <<"children changed">> ELSE <<>>)
        \o (IF Len(base.dependencies) # Len(head.dependencies)
            THEN <<"dependencies changed">> ELSE <<>>),
     propsAdded |-> NamesNotIn(head.props, PropNames(base.props)),
     propsRemoved |-> NamesNotIn(base.props, PropNames(head.props)),
     propsModified |-> PropsModified(base.props, head.props)]

\* null is [isNull |-> TRUE]
diffComponent(base, head) ==
    LET propsAdded == NamesNotIn(head.props, PropNames(base.props))
        propsRemoved == NamesNotIn(base.props, PropNames(head.props))
        propsModified == PropsModified(base.props, head.props)
        changes ==
            (IF Len(base.children) # Len(head.children) THEN <<"children changed">> ELSE <<>>)
            \o (IF Len(base.dependencies) # Len(head.dependencies)
                THEN <<"dependencies changed">> ELSE <<>>)
            \o (IF base.framework # head.framework
                THEN <<"framework changed: " \o base.framework \o " -> " \o head.framework>>
                ELSE <<>>)
        hasChanges == Len(propsAdded) > 0 \/ Len(propsRemoved) > 0
                      \/ Len(propsModified) > 0 \/ Len(changes) > 0
    IN  IF ~hasChanges THEN [isNull |-> TRUE]
        ELSE [isNull |-> FALSE,
              componentId |-> head.id,
              changes |-> changes,
              propsAdded |-> propsAdded,
              propsRemoved |-> propsRemoved,
              propsModified |-> propsModified]

ComponentIds(components) == {components[i].id : i \in 1..Len(components)}

\* components.filter((c) => !ids.has(c.id))
RECURSIVE NotIn(_, _)
NotIn(components, ids) ==
    IF components = <<>> THEN <<>>
    ELSE (IF Head(components).id \in ids THEN <<>> ELSE <<Head(components)>>)
         \o NotIn(Tail(components), ids)

\* base.components.find((c) => c.id === id), for an id that is present
FindComponent(components, id) ==
    components[CHOOSE i \in 1..Len(components) :
                  components[i].id = id /\ \A j \in 1..(i - 1) : components[j].id # id]

RECURSIVE Modified(_, _)
Modified(base, headComponents) ==
    IF headComponents = <<>> THEN <<>>
    ELSE LET headComp == Head(headComponents)
         IN  (IF headComp.id \in ComponentIds(base.components)
              THEN LET mod == diffComponent(FindComponent(base.components, headComp.id), headComp)
                   IN  IF mod.isNull THEN <<>> ELSE <<mod>>
              ELSE <<>>)
             \o Modified(base, Tail(headComponents))

\* new Map(records.map((b) => [b.componentId, b]))
RECURSIVE KeyedMap(_, _, _)
KeyedMap(m, records, i) ==
    IF i > Len(records) THEN m
    ELSE KeyedMap(MapPut(m, records[i].componentId, records[i]), records, i + 1)

\* the size delta with raw computed against the base gzip size
SizeDelta_mixed(baseSize, headSize) ==
    [raw |-> headSize.raw - baseSize.gzip, gzip |-> headSize.gzip - baseSize.gzip]

SizeDelta(baseSize, headSize) ==
    [raw |-> headSize.raw - baseSize.raw, gzip |-> headSize.gzip - baseSize.gzip]

RECURSIVE BundleDiff(_, _)
BundleDiff(baseBundleInfo, headBundleMap) ==
    IF baseBundleInfo = <<>> THEN <<>>
    ELSE LET baseBi == Head(baseBundleInfo)
         IN  (IF MapHas(headBundleMap, baseBi.componentId)
              THEN LET headBi == MapGet(headBundleMap, baseBi.componentId)
                   IN  <<[componentId |-> baseBi.componentId,
                          before |-> baseBi.selfSize,
                          after |-> headBi.selfSize,
                          delta |-> SizeDelta(baseBi.selfSize, headBi.selfSize)]>>
              ELSE <<>>)
             \o BundleDiff(Tail(baseBundleInfo), headBundleMap)

RECURSIVE HealthDiff(_, _)
\* HealthDiff with the head score as delta, the subtraction left out
HealthDiff_noSubtract(baseHealth, headHealthMap) ==
    IF baseHealth = <<>> THEN <<>>
    ELSE LET baseH == Head(baseHealth)
         IN  (IF MapHas(headHealthMap, baseH.componentId)
              THEN LET headH == MapGet(headHealthMap, baseH.componentId)
                   IN  <<[componentId |-> baseH.componentId,
                          beforeScore |-> baseH.score,
                          afterScore |-> headH.score,
                          delta |-> headH.score]>>
              ELSE <<>>)
             \o HealthDiff(Tail(baseHealth), headHealthMap)

HealthDiff(baseHealth, headHealthMap) ==
    IF baseHealth = <<>> THEN <<>>
    ELSE LET baseH == Head(baseHealth)
         IN  (IF MapHas(headHealthMap, baseH.componentId)
              THEN LET headH == MapGet(headHealthMap, baseH.componentId)
                   IN  <<[componentId |-> baseH.componentId,
                          beforeScore |-> baseH.score,
                          afterScore |-> headH.score,
                          delta |-> headH.score - baseH.score]>>
              ELSE <<>>)
             \o HealthDiff(Tail(baseHealth), headHealthMap)

diff(base, head) ==
    [base |-> [commitSha |-> base.commitSha],
     head |-> [commitSha |-> head.commitSha],
     components |->
        [added |-> NotIn(head.components, ComponentIds(base.components)),
         removed |-> NotIn(base.components, ComponentIds(head.components)),
         modified |-> Modified(base, head.components)],
     bundleDiff |-> BundleDiff(base.bundleInfo, KeyedMap(<<>>, head.bundleInfo, 1)),
     healthDiff |-> HealthDiff(base.health, KeyedMap(<<>>, head.health, 1))]

(***************************************************************************)
(* CI significance policy (snapshot-comparator.ts)                         *)
(***************************************************************************)
GzipThreshold == 1024   \* bytes
HealthThreshold == 10   \* points

\* Math.abs
Abs(x) == IF x < 0 THEN -x ELSE x

\* the policy with both thresholds inclusive
hasSignificantChanges_inclusive(d) ==
    IF Len(d.components.added) > 0 \/ Len(d.components.removed) > 0 THEN TRUE
    ELSE IF Len(d.components.modified) > 0 THEN TRUE
    ELSE IF \E i \in 1..Len(d.bundleDiff) : Abs(d.bundleDiff[i].delta.gzip) >= GzipThreshold
    THEN TRUE
    ELSE IF \E i \in 1..Len(d.healthDiff) : Abs(d.healthDiff[i].delta) >= HealthThreshold
    THEN TRUE
    ELSE FALSE

hasSignificantChanges(d) ==
    IF Len(d.components.added) > 0 \/ Len(d.components.removed) > 0 THEN TRUE
    ELSE IF Len(d.components.modified) > 0 THEN TRUE
    ELSE IF \E i \in 1..Len(d.bundleDiff) : Abs(d.bundleDiff[i].delta.gzip) > GzipThreshold
    THEN TRUE
    ELSE IF \E i \in 1..Len(d.healthDiff) : Abs(d.healthDiff[i].delta) > HealthThreshold
    THEN TRUE
    ELSE FALSE

(***************************************************************************)
(* detectDeadCode (dead-code-detector.ts)                                  *)
(***************************************************************************)
\* importedIds: the targets of all imports
ImportedIds(reg) == {reg.imports[i].target : i \in 1..Len(reg.imports)}

isImported(reg, component) ==
    component.filePath \in ImportedIds(reg) \/ component.id \in ImportedIds(reg)

\* hasConsumers asking for more than one consumer
hasConsumers_two(component) == Len(component.usedBy) > 1

hasConsumers(component) == Len(component.usedBy) > 0

\* the report before the first component is looked at
EmptyReport ==
    [unusedComponents |-> <<>>, orphanedComponents |-> <<>>, unusedExports |-> <<>>,
     totalPotentialBytes |-> 0]

\* the unusedExports array after the re-export check of one component
ReExportCheck(reg, component, unusedExports) ==
    IF component.exportKind = "re-export" /\ ~isImported(reg, component)
    THEN Append(unusedExports, [filePath |-> component.filePath,
                                exportName |-> component.name,
                                reason |-> "re_exported_unused"])
    ELSE unusedExports

\* the report after the unused check of one component
UnusedCheck(reg, component, report) ==
    IF ~isImported(reg, component) /\ ~hasConsumers(component)
    THEN IF component.exportKind = "default"
         THEN [report EXCEPT !.unusedComponents =
                 Append(@, [id |-> component.id, reason |-> "never_imported"])]
         ELSE IF component.exportKind = "named"
         THEN [report EXCEPT !.unusedComponents =
                 Append(@, [id |-> component.id, reason |-> "unused_export"]),
                             !.unusedExports =
                 Append(@, [filePath |-> component.filePath,
                            exportName |-> component.name,
                            reason |-> "exported_but_unused"])]
         ELSE report
    ELSE report

\* the loop over unusedComponents adding exclusiveSize.gzip where bundle info exists
RECURSIVE TotalPotentialBytes(_, _, _)
TotalPotentialBytes(reg, unused, i) ==
    IF i > Len(unused) THEN 0
    ELSE (IF MapHas(reg.bundleInfo, unused[i].id)
          THEN MapGet(reg.bundleInfo, unused[i].id).exclusiveSize.gzip
          ELSE 0) + TotalPotentialBytes(reg, unused, i + 1)

(***************************************************************************)
(* DependencyGraph as a state machine                                      *)
(***************************************************************************)
NoRet == [op |-> "none"]

gvars == <<nodes, edgesAdded, gRet>>
xvars == <<xIn, xPrev, xOut, xRuns>>
rvars == <<regs, snaps, rRet, rLive>>
dvars == <<dBase, dHead, dRet>>
svars == <<sDiff, sRet>>
cvars == <<ciFiles, ciLast, ciPrev, ciRuns>>
tvars == <<tFiles, tManifest, tClock, tLast, tRet>>
nvars == <<nOrder, nNotes, nCall, nAllOk, nLast, nCalls>>
kvars == <<kRun>>
hvars == <<hHeap, hComponents, hSnap, hAtCreation>>
ovars == <<kvars, hvars>>
evars == <<svars, cvars, tvars, nvars, ovars>>

GraphIdle ==
    /\ nodes = <<>>
    /\ edgesAdded = {}
    /\ gRet = NoRet

XrefIdle ==
    /\ xIn = <<>>
    /\ xPrev = <<>>
    /\ xOut = <<>>
    /\ xRuns = 0

RegistryIdle ==
    /\ regs = [r \in RegIds |-> NewRegistry]
    /\ snaps = <<>>
    /\ rRet = NoRet
    /\ rLive = [r \in RegIds |-> EmptyMap]

EmptySnapshot ==
    [commitSha |-> "", branch |-> "", components |-> <<>>,
     imports |-> [alias |-> "none", items |-> <<>>], bundleInfo |-> <<>>, health |-> <<>>]

DiffIdle ==
    /\ dBase = EmptySnapshot
    /\ dHead = EmptySnapshot
    /\ dRet = NoRet

EmptyDiff ==
    [components |-> [added |-> <<>>, removed |-> <<>>, modified |-> <<>>],
     bundleDiff |-> <<>>, healthDiff |-> <<>>]

SignificanceIdle ==
    /\ sDiff = EmptyDiff
    /\ sRet = NoRet

DefaultPath == ".foxlight/snapshot.json"

CIPaths == {DefaultPath, "base.json", "head.json"}

\* a path that existsSync does not find
NoFile == [exists |-> FALSE, createdAt |-> 0, data |-> EmptySnapshot]

CIIdle ==
    /\ ciFiles = [f \in CIPaths |-> NoFile]
    /\ ciLast = NoRet
    /\ ciPrev = NoRet
    /\ ciRuns = 0

\* a project root without a .foxlight/snapshots directory
StoreIdle ==
    /\ tFiles = EmptyMap
    /\ tManifest = [exists |-> FALSE, snapshots |-> <<>>]
    /\ tClock = 0
    /\ tLast = [isNull |-> TRUE, data |-> EmptySnapshot]
    /\ tRet = NoRet

\* no call in progress: await findExistingNote(config) has not been reached
NoCall == [pc |-> "idle", existingNoteId |-> 0]

NotesIdle ==
    /\ nOrder = "desc"
    /\ nNotes = <<>>
    /\ nCall = NoCall
    /\ nAllOk = TRUE
    /\ nLast = NoRet
    /\ nCalls = 0

\* detectDeadCode has not been called
NoRun ==
    [pc |-> "idle", i |-> 0, e |-> 0, stack |-> <<>>, ret |-> "none", report |-> EmptyReport]

DeadCodeIdle == kRun = NoRun

\* no snapshot has been created
NoSnap == [taken |-> FALSE, components |-> <<>>]

SharingIdle ==
    /\ hHeap = <<>>
    /\ hComponents = <<>>
    /\ hSnap = NoSnap
    /\ hAtCreation = <<>>

\* the state of the later analyses before any of them ran
OtherIdle == DeadCodeIdle /\ SharingIdle

EnvIdle == SignificanceIdle /\ CIIdle /\ StoreIdle /\ NotesIdle /\ OtherIdle

GraphInit ==
    /\ GraphIdle
    /\ XrefIdle
    /\ RegistryIdle
    /\ DiffIdle
    /\ EnvIdle

AddEdge(source, target) ==
    /\ edgeCount(addEdge(nodes, source, target)) <= MaxEdges
    /\ nodes' = addEdge(nodes, source, target)
    /\ edgesAdded' = edgesAdded \cup {<<source, target>>}
    /\ gRet' = NoRet
    /\ UNCHANGED <<xvars, rvars, dvars, evars>>

DetectCycles ==
    /\ gRet' = [op |-> "detectCycles", cycles |-> detectCycles(nodes)]
    /\ UNCHANGED <<nodes, edgesAdded, xvars, rvars, dvars, evars>>

TopologicalSort ==
    /\ gRet' = [op |-> "topologicalSort", sorted |-> topologicalSort(nodes)]
    /\ UNCHANGED <<nodes, edgesAdded, xvars, rvars, dvars, evars>>

GetExclusiveDependencies(id, allTopLevel) ==
    /\ gRet' = [op |-> "getExclusiveDependencies", id |-> id, allTopLevel |-> allTopLevel,
                deps |-> getExclusiveDependencies(nodes, id, allTopLevel)]
    /\ UNCHANGED <<nodes, edgesAdded, xvars, rvars, dvars, evars>>

GetSharedDependencies(idA, idB) ==
    /\ gRet' = [op |-> "getSharedDependencies", idA |-> idA, idB |-> idB,
                deps |-> getSharedDependencies(nodes, idA, idB)]
    /\ UNCHANGED <<nodes, edgesAdded, xvars, rvars, dvars, evars>>

\* the import edges handed to fromImports
GEdges == [source : NodeIds, target : NodeIds]

\* DependencyGraph.fromImports(edges): the graph starts with these edges
FromImports(edges) ==
    /\ nodes = <<>>
    /\ edgesAdded = {}
    /\ nodes' = fromImports(<<>>, edges)
    /\ edgesAdded' = {<<edges[i].source, edges[i].target>> : i \in 1..Len(edges)}
    /\ gRet' = NoRet
    /\ UNCHANGED <<xvars, rvars, dvars, evars>>

GetTransitiveDependencies(id) ==
    /\ gRet' = [op |-> "getTransitiveDependencies", id |-> id,
                deps |-> getTransitiveDependencies(nodes, id)]
    /\ UNCHANGED <<nodes, edgesAdded, xvars, rvars, dvars, evars>>

GetImpactedModules(id) ==
    /\ gRet' = [op |-> "getImpactedModules", id |-> id,
                deps |-> getImpactedModules(nodes, id)]
    /\ UNCHANGED <<nodes, edgesAdded, xvars, rvars, dvars, evars>>

GraphNext ==
    \/ \E s, t \in NodeIds : AddEdge(s, t)
    \/ \E a, b \in NodeIds : GetSharedDependencies(a, b)
    \/ DetectCycles
    \/ TopologicalSort
    \/ \E id \in NodeIds, all \in SeqsUpTo(NodeIds, MaxTop) : GetExclusiveDependencies(id, all)

vars ==
    <<nodes, edgesAdded, gRet, xIn, xPrev, xOut, xRuns, regs, snaps, rRet, rLive,
      dBase, dHead, dRet,
      sDiff, sRet, ciFiles, ciLast, ciPrev, ciRuns,
      tFiles, tManifest, tClock, tLast, tRet,
      nOrder, nNotes, nCall, nAllOk, nLast, nCalls, kRun,
      hHeap, hComponents, hSnap, hAtCreation>>

GraphSpec == GraphInit /\ [][GraphNext]_vars

\* the graph under its queries: closures, adjacency, counts and cycle report
GraphQueryNext ==
    \/ \E s, t \in NodeIds : AddEdge(s, t)
    \/ \E id \in NodeIds : GetTransitiveDependencies(id)
    \/ \E id \in NodeIds : GetImpactedModules(id)
    \/ DetectCycles
    \/ \E edges \in SeqsUpTo(GEdges, MaxBatch) : FromImports(edges)

GraphQuerySpec == GraphInit /\ [][GraphQueryNext]_vars

(***************************************************************************)
(* The cross-referencer applied to a list, then again to its own result    *)
(***************************************************************************)
XComponents ==
    [id : XIds, name : XNames,
     children : SeqsUpTo(XChildStr, MaxChildren),
     usedBy : SeqsUpTo(XUsedStr, MaxUsedBy)]

\* pairwise distinct ids
DistinctIds(l) == \A i, j \in 1..Len(l) : l[i].id = l[j].id => i = j

XrefInit ==
    /\ \E k \in 0..Cardinality(XIds) : xIn \in [1..k -> XComponents]
    /\ DistinctIds(xIn)
    /\ xPrev = xIn
    /\ xOut = xIn
    /\ xRuns = 0
    /\ GraphIdle
    /\ RegistryIdle
    /\ DiffIdle
    /\ EnvIdle

CrossReference ==
    /\ xRuns < MaxRuns
    /\ xPrev' = xOut
    /\ xOut' = crossReferenceComponents(xOut)
    /\ xRuns' = xRuns + 1
    /\ UNCHANGED <<xIn, gvars, rvars, dvars, evars>>

XrefNext == CrossReference

XrefSpec == XrefInit /\ [][XrefNext]_vars

(***************************************************************************)
(* ComponentRegistry as a state machine                                    *)
(***************************************************************************)
\* the history after components were added in order
RECURSIVE LiveAfter(_, _)
LiveAfter(live, components) ==
    IF components = <<>> THEN live
    ELSE LiveAfter(MapSet(live, Head(components).id, Head(components)), Tail(components))

\* the history after id was removed
LiveWithout(live, id) == [x \in DOMAIN live \ {id} |-> live[x]]

Component(id, props, children, usedBy, dependencies, framework) ==
    [id |-> id, name |-> id, framework |-> framework, props |-> props,
     children |-> children, usedBy |-> usedBy, dependencies |-> dependencies]

\* records offered to the registry
RComponents ==
    {Component("a", <<>>, <<"b">>, <<>>, <<>>, "react"),
     Component("b", <<>>, <<>>, <<"a">>, <<>>, "react")}

REdges == {[source |-> "a.tsx", target |-> "b.tsx"]}

RBundles ==
    {[componentId |-> "a", selfSize |-> [raw |-> 10, gzip |-> 5]],
     [componentId |-> "a", selfSize |-> [raw |-> 20, gzip |-> 8]]}

RHealth == {[componentId |-> "a", score |-> 50]}

RShas == {"abc123"}

AddComponent(r, c) ==
    /\ regs' = [regs EXCEPT ![r] = addComponent(@, c)]
    /\ rLive' = [rLive EXCEPT ![r] = LiveAfter(@, <<c>>)]
    /\ rRet' = [op |-> "addComponent", id |-> c.id, replaced |-> hasComponent(regs[r], c.id)]
    /\ UNCHANGED <<snaps, gvars, xvars, dvars, evars>>

AddComponents(r, cs) ==
    /\ regs' = [regs EXCEPT ![r] = addComponents(@, cs)]
    /\ rLive' = [rLive EXCEPT ![r] = LiveAfter(@, cs)]
    /\ rRet' = NoRet
    /\ UNCHANGED <<snaps, gvars, xvars, dvars, evars>>

RemoveComponent(r, id) ==
    /\ regs' = [regs EXCEPT ![r] = removeComponent(@, id)]
    /\ rLive' = [rLive EXCEPT ![r] = LiveWithout(@, id)]
    /\ rRet' = [op |-> "removeComponent", id |-> id, value |-> hasComponent(regs[r], id)]
    /\ UNCHANGED <<snaps, gvars, xvars, dvars, evars>>

AddImport(r, e) ==
    /\ Len(regs[r].imports) < MaxImports
    /\ regs' = [regs EXCEPT ![r] = addImport(@, e)]
    /\ rRet' = NoRet
    /\ UNCHANGED <<snaps, rLive, gvars, xvars, dvars, evars>>

AddImports(r, es) ==
    /\ Len(regs[r].imports) + Len(es) <= MaxImports
    /\ regs' = [regs EXCEPT ![r] = addImports(@, es)]
    /\ rRet' = NoRet
    /\ UNCHANGED <<snaps, rLive, gvars, xvars, dvars, evars>>

SetBundleInfo(r, b) ==
    /\ regs' = [regs EXCEPT ![r] = setBundleInfo(@, b)]
    /\ rRet' = NoRet
    /\ UNCHANGED <<snaps, rLive, gvars, xvars, dvars, evars>>

SetHealth(r, h) ==
    /\ regs' = [regs EXCEPT ![r] = setHealth(@, h)]
    /\ rRet' = NoRet
    /\ UNCHANGED <<snaps, rLive, gvars, xvars, dvars, evars>>

Clear(r) ==
    /\ regs' = [regs EXCEPT ![r] = clear(@)]
    /\ rLive' = [rLive EXCEPT ![r] = EmptyMap]
    /\ snaps' = Detach(snaps, r)
    /\ rRet' = NoRet
    /\ UNCHANGED <<gvars, xvars, dvars, evars>>

CreateSnapshot(r, commitSha, branch) ==
    /\ Len(snaps) < MaxSnaps
    /\ snaps' = Append(snaps, createSnapshot(r, commitSha, branch))
    /\ rRet' = [op |-> "createSnapshot"]
    /\ UNCHANGED <<regs, rLive, gvars, xvars, dvars, evars>>

LoadSnapshot(r, k) ==
    /\ regs' = [regs EXCEPT ![r] = loadSnapshot(@, snaps[k])]
    /\ rLive' = [rLive EXCEPT ![r] = LiveAfter(EmptyMap, snaps[k].components)]
    /\ snaps' = Detach(snaps, r)
    /\ rRet' = [op |-> "loadSnapshot", snapshot |-> k]
    /\ UNCHANGED <<gvars, xvars, dvars, evars>>

\* the caller lets go of a snapshot
DropSnapshot(k) ==
    /\ snaps' = [i \in 1..(Len(snaps) - 1) |-> IF i < k THEN snaps[i] ELSE snaps[i + 1]]
    /\ rRet' = [op |-> "dropSnapshot"]
    /\ UNCHANGED <<regs, rLive, gvars, xvars, dvars, evars>>

\* t.loadSnapshot(r.createSnapshot(commitSha, branch)); before keeps what the
\* four getAll* calls returned on t before the call
LoadFreshSnapshot(r, t, commitSha, branch) ==
    /\ regs' = [regs EXCEPT ![t] = loadSnapshot(@, createSnapshot(r, commitSha, branch))]
    /\ rLive' = [rLive EXCEPT ![t] = LiveAfter(EmptyMap, getAllComponents(regs[r]))]
    /\ rRet' = [op |-> "loadFreshSnapshot", from |-> r, to |-> t, before |-> regs[t]]
    /\ UNCHANGED <<snaps, gvars, xvars, dvars, evars>>

GetSubtree(r, id) ==
    /\ rRet' = [op |-> "getSubtree", id |-> id, value |-> getSubtree(regs[r], id),
                steps |-> SubtreeLoop(regs[r], <<id>>, {}, <<>>, 0).steps]
    /\ UNCHANGED <<regs, rLive, snaps, gvars, xvars, dvars, evars>>

RegistryInit ==
    /\ RegistryIdle
    /\ GraphIdle
    /\ XrefIdle
    /\ DiffIdle
    /\ EnvIdle

\* one registry and the snapshots taken of it
RegistryNext ==
    \/ \E c \in RComponents : AddComponent("R", c)
    \/ \E cs \in SeqsUpTo(RComponents, MaxBatch) : AddComponents("R", cs)
    \/ \E c \in RComponents : RemoveComponent("R", c.id)
    \/ \E e \in REdges : AddImport("R", e)
    \/ \E es \in SeqsUpTo(REdges, MaxBatch) : AddImports("R", es)
    \/ \E b \in RBundles : SetBundleInfo("R", b)
    \/ \E h \in RHealth : SetHealth("R", h)
    \/ Clear("R")
    \/ \E sha \in RShas : CreateSnapshot("R", sha, "main")
    \/ \E k \in 1..Len(snaps) : LoadSnapshot("R", k)
    \/ \E k \in 1..Len(snaps) : DropSnapshot(k)

RegistrySpec == RegistryInit /\ [][RegistryNext]_vars

\* two registries, one loaded from a fresh snapshot of the other
LoadNext ==
    \/ \E r \in RegIds, c \in RComponents : AddComponent(r, c)
    \/ \E r \in RegIds, c \in RComponents : RemoveComponent(r, c.id)
    \/ \E r \in RegIds, e \in REdges : AddImport(r, e)
    \/ \E r \in RegIds, b \in RBundles : SetBundleInfo(r, b)
    \/ \E r \in RegIds, h \in RHealth : SetHealth(r, h)
    \/ \E r \in RegIds : Clear(r)
    \/ \E r, t \in RegIds, sha \in RShas : LoadFreshSnapshot(r, t, sha, "main")

LoadSpec == RegistryInit /\ [][LoadNext]_vars

\* a registry whose children relation may hold cycles, shared children and
\* ids of components that are not registered
TreeIds == {"a", "b", "c"}

\* children as the detector emits them ([...new Set(children)]): no entry twice
TreeChildren == {ch \in SeqsUpTo(TreeIds, MaxKids) : NoDup(ch)}

TreeComponents ==
    {Component(id, <<>>, ch, <<>>, <<>>, "react") : id \in TreeIds, ch \in TreeChildren}

SubtreeNext ==
    \/ \E c \in TreeComponents : AddComponent("R", c)
    \/ \E id \in TreeIds : RemoveComponent("R", id)
    \/ \E id \in TreeIds : GetSubtree("R", id)

SubtreeSpec == RegistryInit /\ [][SubtreeNext]_vars

GetConsumers(r, id) ==
    /\ rRet' = [op |-> "getConsumers", id |-> id, found |-> getConsumers(regs[r], id)]
    /\ UNCHANGED <<regs, rLive, snaps, gvars, xvars, dvars, evars>>

GetDependents(r, id) ==
    /\ rRet' = [op |-> "getDependents", id |-> id,
                found |-> ComponentRegistry_getDependents(regs[r], id)]
    /\ UNCHANGED <<regs, rLive, snaps, gvars, xvars, dvars, evars>>

\* a registry whose records come in several versions per id, with children
\* and usedBy naming registered ids, removed ids and the component itself
UIds == {"a", "b", "c"}

ULinks == {<<>>, <<"b", "a", "c">>}

UComponents == {Component(id, <<>>, l, l, <<>>, "react") : id \in UIds, l \in ULinks}

ComponentsNext ==
    \/ \E c \in UComponents : AddComponent("R", c)
    \/ \E cs \in SeqsUpTo(UComponents, MaxBatch) : AddComponents("R", cs)
    \/ \E id \in UIds : RemoveComponent("R", id)
    \/ Clear("R")
    \/ \E id \in UIds : GetConsumers("R", id)
    \/ \E id \in UIds : GetDependents("R", id)

ComponentsSpec == RegistryInit /\ [][ComponentsNext]_vars

GetRootComponents(r) ==
    /\ rRet' = [op |-> "getRootComponents", components |-> getRootComponents(regs[r])]
    /\ UNCHANGED <<regs, rLive, snaps, gvars, xvars, dvars, evars>>

GetLeafComponents(r) ==
    /\ rRet' = [op |-> "getLeafComponents", components |-> getLeafComponents(regs[r])]
    /\ UNCHANGED <<regs, rLive, snaps, gvars, xvars, dvars, evars>>

\* a parent and a child in several versions: children and usedBy are empty or
\* name one of the two ids
VIds == {"a", "b"}

VLinks == {<<>>, <<"a">>, <<"b">>}

VComponents ==
    {Component(id, <<>>, ch, ub, <<>>, "react") : id \in VIds, ch \in VLinks, ub \in VLinks}

RootsNext ==
    \/ \E c \in VComponents : AddComponent("R", c)
    \/ \E id \in VIds : RemoveComponent("R", id)
    \/ \E id \in VIds : GetConsumers("R", id)
    \/ \E id \in VIds : GetDependents("R", id)
    \/ GetRootComponents("R")
    \/ GetLeafComponents("R")

RootsSpec == RegistryInit /\ [][RootsNext]_vars

(***************************************************************************)
(* ComponentRegistry.diff applied to two snapshots                         *)
(***************************************************************************)
Prop(name, type, required) == [name |-> name, type |-> type, required |-> required]

\* prop lists, prop names unique within a list
DProps ==
    {<<>>,
     <<Prop("label", "string", TRUE)>>,
     <<Prop("label", "number", TRUE)>>,
     <<Prop("label", "string", FALSE)>>,
     <<Prop("label", "string", TRUE), Prop("variant", "string", FALSE)>>,
     <<Prop("variant", "string", FALSE), Prop("label", "string", TRUE)>>,
     <<Prop("variant", "number", FALSE), Prop("label", "number", TRUE)>>}

DShapes ==
    {[children |-> <<>>, dependencies |-> <<>>, framework |-> "react"],
     [children |-> <<"b">>, dependencies |-> <<>>, framework |-> "react"],
     [children |-> <<>>, dependencies |-> <<"lodash">>, framework |-> "react"],
     [children |-> <<>>, dependencies |-> <<>>, framework |-> "vue"]}

DVariantsA ==
    {Component("a", p, sh.children, <<>>, sh.dependencies, sh.framework) : p \in DProps, sh \in DShapes}

DComponentB == Component("b", <<>>, <<>>, <<"a">>, <<>>, "react")

\* component arrays as getAllComponents returns them: one entry per id
DComponentLists ==
    {<<>>, <<DComponentB>>}
    \cup {<<a>> : a \in DVariantsA}
    \cup {<<a, DComponentB>> : a \in DVariantsA}
    \cup {<<DComponentB, a>> : a \in DVariantsA}

Bundle(id, raw, gzip) == [componentId |-> id, selfSize |-> [raw |-> raw, gzip |-> gzip]]

Health(id, score) == [componentId |-> id, score |-> score]

\* bundleInfo and health arrays as getAllBundleInfo / getAllHealth return them
DMetrics ==
    {[bundleInfo |-> <<>>, health |-> <<>>],
     [bundleInfo |-> <<Bundle("a", 3000, 1000)>>, health |-> <<Health("a", 80)>>],
     [bundleInfo |-> <<Bundle("a", 5000, 2024)>>, health |-> <<Health("a", 70), Health("b", 40)>>],
     [bundleInfo |-> <<Bundle("b", 900, 300), Bundle("a", 3000, 1000)>>, health |-> <<Health("b", 40)>>]}

DSnapshots ==
    {[commitSha |-> "sha", branch |-> "main", components |-> cs,
      imports |-> [alias |-> "none", items |-> <<>>],
      bundleInfo |-> m.bundleInfo, health |-> m.health] : cs \in DComponentLists, m \in DMetrics}

DiffInit ==
    /\ dBase \in DSnapshots
    /\ dHead \in DSnapshots
    /\ dRet = NoRet
    /\ GraphIdle
    /\ XrefIdle
    /\ RegistryIdle
    /\ EnvIdle

\* ComponentRegistry.diff(base, head)
Diff ==
    /\ dRet' = [op |-> "diff", value |-> diff(dBase, dHead)]
    /\ UNCHANGED <<dBase, dHead, gvars, xvars, rvars, evars>>

\* ComponentRegistry.diff(base, base)
DiffSelf ==
    /\ dRet' = [op |-> "diffSelf", value |-> diff(dBase, dBase)]
    /\ UNCHANGED <<dBase, dHead, gvars, xvars, rvars, evars>>

DiffNext == Diff \/ DiffSelf

DiffSpec == DiffInit /\ [][DiffNext]_vars

(***************************************************************************)
(* hasSignificantChanges applied to a diff                                 *)
(***************************************************************************)
\* a ComponentModification as diffComponent emits it
SModification ==
    [isNull |-> FALSE, componentId |-> "a", changes |-> <<"children changed">>,
     propsAdded |-> <<>>, propsRemoved |-> <<>>, propsModified |-> <<>>]

\* bundleDiff entries around the gzip threshold, with and without a raw change
SBundleEntries ==
    {[componentId |-> "a",
      before |-> [raw |-> 5000, gzip |-> 2000],
      after |-> [raw |-> 5000 + r, gzip |-> 2000 + g],
      delta |-> [raw |-> r, gzip |-> g]] :
        r \in {0, 3000}, g \in {-1025, -1024, 0, 500, 1024, 1025}}

\* healthDiff entries around the health threshold
SHealthEntries ==
    {[componentId |-> "a", beforeScore |-> 50, afterScore |-> 50 + h, delta |-> h] :
        h \in {-11, -10, 0, 5, 10, 11}}

SDiffs ==
    [components : [added : SeqsUpTo({DComponentB}, 1),
                   removed : SeqsUpTo({DComponentB}, 1),
                   modified : SeqsUpTo({SModification}, 1)],
     bundleDiff : SeqsUpTo(SBundleEntries, MaxBundleDiff),
     healthDiff : SeqsUpTo(SHealthEntries, MaxHealthDiff)]

SignificanceInit ==
    /\ sDiff \in SDiffs
    /\ sRet = NoRet
    /\ CIIdle
    /\ StoreIdle
    /\ NotesIdle
    /\ GraphIdle
    /\ XrefIdle
    /\ RegistryIdle
    /\ DiffIdle
    /\ OtherIdle

HasSignificantChanges ==
    /\ sRet' = [op |-> "hasSignificantChanges", value |-> hasSignificantChanges(sDiff)]
    /\ UNCHANGED <<sDiff, gvars, xvars, rvars, dvars, cvars, tvars, nvars, ovars>>

SignificanceNext == HasSignificantChanges

SignificanceSpec == SignificanceInit /\ [][SignificanceNext]_vars

(***************************************************************************)
(* runCI (ci.ts) over compareSnapshots (snapshot-comparator.ts)            *)
(***************************************************************************)
createEmptySnapshot ==
    [commitSha |-> "0000000", branch |-> "none", components |-> <<>>,
     imports |-> [alias |-> "none", items |-> <<>>], bundleInfo |-> <<>>, health |-> <<>>]

\* JSON.parse(JSON.stringify(snapshot)): the same strings, numbers and arrays
\* in arrays of their own
JsonRoundTrip(snapshot) ==
    [snapshot EXCEPT !.imports = [alias |-> "none", items |-> ArrayItems(@)]]

\* compareSnapshots on the registry analyzeProject returns (registry r),
\* at time now; files are the snapshot files before the call
compareSnapshots(files, r, now, basePath, outputPath, commitSha, branch) ==
    LET head == createSnapshot(r, commitSha, branch)
        files1 == IF outputPath # ""
                  THEN [files EXCEPT ![outputPath] =
                          [exists |-> TRUE, createdAt |-> now, data |-> JsonRoundTrip(head)]]
                  ELSE files
        found == basePath # "" /\ files1[basePath].exists
        base == IF found THEN files1[basePath].data ELSE createEmptySnapshot
    IN  [files |-> files1,
         base |-> base,
         baseCreatedAt |-> IF found THEN files1[basePath].createdAt ELSE now,
         head |-> head,
         diff |-> diff(base, head)]

\* options.basePath / options.outputPath; "" stands for undefined
CIOptions == [basePath : {"", "base.json"}, outputPath : {"", "head.json"}, json : BOOLEAN]

\* what detectGitHubEnv / detectGitLabEnv find: github is true when token,
\* owner, repo and prNumber are all set, gitlab when the merge request
\* variables are set
CIEnvs == [github : BOOLEAN, gitlab : BOOLEAN]

CIShas == {"sha1", "sha2"}

\* runCI(options) in environment env at commit commitSha, on the working tree
\* whose analysis is registry "R"; posts are the platforms a report was sent to.
\* detectGitLabEnv returns an object, so if (gitlabEnv) always passes.
RunCI(options, env, commitSha) ==
    /\ ciRuns < MaxCIRuns
    /\ LET basePath == IF options.basePath # "" THEN options.basePath ELSE DefaultPath
           outputPath == IF options.outputPath # "" THEN options.outputPath ELSE DefaultPath
           now == ciRuns + 1
           comparison == compareSnapshots(ciFiles, "R", now, basePath, outputPath,
                                          commitSha, "main")
           significant == hasSignificantChanges(comparison.diff)
           posts == IF options.json THEN {}
                    ELSE (IF env.github THEN {"github"} ELSE {}) \cup {"gitlab"}
       IN  /\ ciFiles' = comparison.files
           /\ ciLast' = [op |-> "runCI", basePath |-> basePath, outputPath |-> outputPath,
                         json |-> options.json, env |-> env, now |-> now,
                         base |-> comparison.base,
                         baseCreatedAt |-> comparison.baseCreatedAt,
                         head |-> comparison.head,
                         significant |-> significant, posts |-> posts]
           /\ ciPrev' = ciLast
           /\ ciRuns' = now
    /\ UNCHANGED <<gvars, xvars, rvars, dvars, svars, tvars, nvars, ovars>>

\* the working tree changes between runs: its next analysis holds c
EditAdd(c) ==
    /\ AddComponent("R", c)

\* ... or no longer holds the component id
EditRemove(id) ==
    /\ hasComponent(regs["R"], id)
    /\ RemoveComponent("R", id)

CIInit ==
    /\ CIIdle
    /\ SignificanceIdle
    /\ StoreIdle
    /\ NotesIdle
    /\ GraphIdle
    /\ XrefIdle
    /\ RegistryIdle
    /\ DiffIdle
    /\ OtherIdle

CINext ==
    \/ \E o \in CIOptions, env \in CIEnvs, sha \in CIShas : RunCI(o, env, sha)
    \/ \E c \in RComponents : EditAdd(c)
    \/ \E c \in RComponents : EditRemove(c.id)

CISpec == CIInit /\ [][CINext]_vars

(***************************************************************************)
(* SnapshotStore (snapshot-store.ts)                                       *)
(***************************************************************************)
\* A snapshot file is named after the ISO time of its save, ':' and '.'
\* replaced by '-'; such names have one width, so that the string order
\* Array.prototype.sort uses is the order of the times. The model keeps the
\* time itself as the file name.
maxSnapshots == 30

\* files.sort() without the reverse()
RECURSIVE SortReverse_ascending(_)
SortReverse_ascending(names) ==
    IF names = {} THEN <<>>
    ELSE LET first == CHOOSE n \in names : \A m \in names : n <= m
         IN  <<first>> \o SortReverse_ascending(names \ {first})

\* files.sort().reverse()
RECURSIVE SortReverse(_)
SortReverse(names) ==
    IF names = {} THEN <<>>
    ELSE LET last == CHOOSE n \in names : \A m \in names : m <= n
         IN  <<last>> \o SortReverse(names \ {last})

\* array.slice(0, n)
SliceTo(array, n) == SubSeq(array, 1, IF n < Len(array) THEN n ELSE Len(array))

\* cleanupOldSnapshots: [files, manifest] afterwards
cleanupOldSnapshots(files) ==
    LET jsonFiles == SortReverse(DOMAIN files)
        snapshotFiles == SliceTo(jsonFiles, maxSnapshots)
    IN  [files |-> [n \in Range(snapshotFiles) |-> files[n]],
         manifest |-> [exists |-> TRUE, snapshots |-> snapshotFiles]]

\* saveSnapshot(data) at time now: [files, manifest] afterwards
saveSnapshot(files, now, data) ==
    cleanupOldSnapshots([n \in DOMAIN files \cup {now} |->
                           IF n = now THEN JsonRoundTrip(data) ELSE files[n]])

\* loadManifest: the catch branch returns an empty manifest
loadManifest(manifest) == IF manifest.exists THEN manifest.snapshots ELSE <<>>

\* null is [isNull |-> TRUE]
loadLatestSnapshot(files, manifest) ==
    LET snapshots == loadManifest(manifest)
    IN  IF Len(snapshots) = 0 THEN [isNull |-> TRUE, timestamp |-> 0, data |-> EmptySnapshot]
        ELSE LET latest == snapshots[Len(snapshots)]
             IN  [isNull |-> FALSE, timestamp |-> latest, data |-> files[latest]]

\* loadSnapshots(limit); limit 0 stands for an absent (falsy) limit
loadSnapshots(files, manifest, limit) ==
    LET all == loadManifest(manifest)
        from == IF Len(all) - limit > 0 THEN Len(all) - limit ELSE 0
        snapshots == IF limit # 0 THEN SubSeq(all, from + 1, Len(all)) ELSE all
    IN  [i \in 1..Len(snapshots) |->
           [timestamp |-> snapshots[i], data |-> files[snapshots[i]]]]

\* the data handed to saveSnapshot
TData ==
    {[EmptySnapshot EXCEPT !.commitSha = sha, !.branch = "main", !.components = cs] :
        sha \in {"abc123"}, cs \in {<<>>, <<DComponentB>>}}

SaveSnapshot(data) ==
    /\ tClock < MaxSaves
    /\ tClock' = tClock + 1
    /\ LET after == saveSnapshot(tFiles, tClock + 1, data)
       IN  /\ tFiles' = after.files
           /\ tManifest' = after.manifest
    /\ tLast' = [isNull |-> FALSE, data |-> data]
    /\ tRet' = [op |-> "saveSnapshot", timestamp |-> tClock + 1]
    /\ UNCHANGED <<gvars, xvars, rvars, dvars, svars, cvars, nvars, ovars>>

LoadLatestSnapshot ==
    /\ tRet' = [op |-> "loadLatestSnapshot", value |-> loadLatestSnapshot(tFiles, tManifest)]
    /\ UNCHANGED <<tFiles, tManifest, tClock, tLast, gvars, xvars, rvars, dvars, svars, cvars,
                   nvars, ovars>>

StoreInit ==
    /\ StoreIdle
    /\ NotesIdle
    /\ SignificanceIdle
    /\ CIIdle
    /\ GraphIdle
    /\ XrefIdle
    /\ RegistryIdle
    /\ DiffIdle
    /\ OtherIdle

StoreNext ==
    \/ \E data \in TData : SaveSnapshot(data)
    \/ LoadLatestSnapshot

StoreSpec == StoreInit /\ [][StoreNext]_vars

\* the store over more saves than it keeps, one analysis result saved again
\* and again
LongData == [EmptySnapshot EXCEPT !.commitSha = "abc123", !.branch = "main"]

SaveSnapshotLong(data) ==
    /\ tClock < MaxLongSaves
    /\ tClock' = tClock + 1
    /\ LET after == saveSnapshot(tFiles, tClock + 1, data)
       IN  /\ tFiles' = after.files
           /\ tManifest' = after.manifest
    /\ tLast' = [isNull |-> FALSE, data |-> data]
    /\ tRet' = [op |-> "saveSnapshot", timestamp |-> tClock + 1]
    /\ UNCHANGED <<gvars, xvars, rvars, dvars, svars, cvars, nvars, ovars>>

LoadSnapshots(limit) ==
    /\ tRet' = [op |-> "loadSnapshots", limit |-> limit,
                timestamps |-> [i \in 1..Len(loadSnapshots(tFiles, tManifest, limit)) |->
                                  loadSnapshots(tFiles, tManifest, limit)[i].timestamp]]
    /\ UNCHANGED <<tFiles, tManifest, tClock, tLast, gvars, xvars, rvars, dvars, svars, cvars,
                   nvars, ovars>>

RotationNext ==
    \/ SaveSnapshotLong(LongData)
    \/ \E limit \in 0..MaxLimit : LoadSnapshots(limit)

RotationSpec == StoreInit /\ [][RotationNext]_vars

(***************************************************************************)
(* postMRComment (gitlab.ts) and postPRComment (github.ts)                 *)
(***************************************************************************)
\* A note is [id, marker, report]: marker says whether its body includes
\* '<!-- foxlight-report -->', report is the call whose body it carries
\* (0 for a note written by somebody else). Ids are positive; 0 is null.
\* Both functions request the listing without a page parameter and read the
\* one response: the first page, of the size the server chooses (PageSize).
RECURSIVE Reverse(_)
Reverse(array) ==
    IF array = <<>> THEN <<>> ELSE Append(Reverse(Tail(array)), Head(array))

\* the body of a successful listing response
ListingPage(order, notes) ==
    SliceTo(IF order = "desc" THEN Reverse(notes) ELSE notes, PageSize)

\* notes.find((n) => n.body.includes('<!-- foxlight-report -->'))?.id ?? null
RECURSIVE FindMarked(_)
FindMarked(page) ==
    IF page = <<>> THEN 0
    ELSE IF Head(page).marker THEN Head(page).id
    ELSE FindMarked(Tail(page))

\* findExistingNote / findExistingComment, given the response
findExistingNote(ok, page) == IF ~ok THEN 0 ELSE FindMarked(page)

\* const existingNoteId = await findExistingNote(config)
FindExistingNote(ok) ==
    /\ nCall.pc = "idle"
    /\ nCalls < MaxCalls
    /\ nCall' = [pc |-> "listed",
                 existingNoteId |-> findExistingNote(ok, ListingPage(nOrder, nNotes))]
    /\ nAllOk' = (nAllOk /\ ok)
    /\ nLast' = [op |-> "listing", ok |-> ok,
                 hadNote |-> \E i \in 1..Len(nNotes) : nNotes[i].marker]
    /\ UNCHANGED <<nOrder, nNotes, nCalls, gvars, xvars, rvars, dvars, svars, cvars, tvars, ovars>>

\* if (existingNoteId) PUT (PATCH) the note else POST a new one; the body is
\* generateCommentBody(diff), which starts with the marker
WriteNote ==
    /\ nCall.pc = "listed"
    /\ nNotes' =
          IF nCall.existingNoteId # 0
          THEN [i \in 1..Len(nNotes) |->
                  IF nNotes[i].id = nCall.existingNoteId
                  THEN [nNotes[i] EXCEPT !.marker = TRUE, !.report = nCalls + 1]
                  ELSE nNotes[i]]
          ELSE Append(nNotes, [id |-> Len(nNotes) + 1, marker |-> TRUE, report |-> nCalls + 1])
    /\ nLast' = [op |-> "write", ok |-> nLast.ok, hadNote |-> nLast.hadNote,
                 method |-> IF nCall.existingNoteId # 0 THEN "PUT" ELSE "POST"]
    /\ nCall' = NoCall
    /\ nCalls' = nCalls + 1
    /\ UNCHANGED <<nOrder, nAllOk, gvars, xvars, rvars, dvars, svars, cvars, tvars, ovars>>

\* somebody else comments on the merge request
OtherNote ==
    /\ Cardinality({i \in 1..Len(nNotes) : ~nNotes[i].marker}) < MaxOtherNotes
    /\ nNotes' = Append(nNotes, [id |-> Len(nNotes) + 1, marker |-> FALSE, report |-> 0])
    /\ UNCHANGED <<nOrder, nCall, nAllOk, nLast, nCalls,
                   gvars, xvars, rvars, dvars, svars, cvars, tvars, ovars>>

\* GitLab is asked for sort=desc; GitHub lists oldest first
NotesInit ==
    /\ nOrder \in {"asc", "desc"}
    /\ nNotes = <<>>
    /\ nCall = NoCall
    /\ nAllOk = TRUE
    /\ nLast = NoRet
    /\ nCalls = 0
    /\ SignificanceIdle
    /\ CIIdle
    /\ StoreIdle
    /\ GraphIdle
    /\ XrefIdle
    /\ RegistryIdle
    /\ DiffIdle
    /\ OtherIdle

NotesNext ==
    \/ \E ok \in BOOLEAN : FindExistingNote(ok)
    \/ WriteNote
    \/ OtherNote

NotesSpec == NotesInit /\ [][NotesNext]_vars

(***************************************************************************)
(* detectDeadCode as a state machine: one step per loop iteration, call    *)
(* and return, so that a recursion that never returns shows as a run that  *)
(* never reaches "done"                                                    *)
(***************************************************************************)
KIds == {"a", "b", "c"}

KFilePath(id) == CASE id = "a" -> "a.tsx" [] id = "b" -> "b.tsx" [] OTHER -> "c.tsx"

KExportKind(id) == CASE id = "a" -> "named" [] id = "b" -> "default" [] OTHER -> "re-export"

\* usedBy arrays offered; "x" is an id no component is registered under
KUsedBy == {<<>>, <<"a">>, <<"b">>, <<"c">>, <<"x", "a">>, <<"x", "b">>, <<"b", "c">>}

KComponents ==
    {[id |-> id, name |-> id, filePath |-> KFilePath(id), exportKind |-> KExportKind(id),
      framework |-> "react", props |-> <<>>, children |-> <<>>, usedBy |-> u,
      dependencies |-> <<>>] : id \in KIds, u \in KUsedBy}

KEdges == {[source |-> "main.tsx", target |-> "c"],
           [source |-> "main.tsx", target |-> "b.tsx"]}

\* the registry handed to detectDeadCode
KReg == regs["R"]

\* detectDeadCode is entered: allComponents, allImports and importedIds are read
DetectStart ==
    /\ kRun.pc = "idle"
    /\ kRun' = [NoRun EXCEPT !.pc = "component", !.i = 1]
    /\ UNCHANGED <<gvars, xvars, rvars, dvars, svars, cvars, tvars, nvars, hvars>>

\* one iteration of for (const component of allComponents) up to the orphan
\* check, or the code after the loop
DetectComponent ==
    /\ kRun.pc = "component"
    /\ LET all == getAllComponents(KReg)
       IN  IF kRun.i > Len(all)
           THEN kRun' = [kRun EXCEPT !.pc = "done",
                           !.report.totalPotentialBytes =
                               TotalPotentialBytes(KReg, kRun.report.unusedComponents, 1)]
           ELSE LET component == all[kRun.i]
                    r1 == [kRun.report EXCEPT !.unusedExports =
                             ReExportCheck(KReg, component, @)]
                    r2 == UnusedCheck(KReg, component, r1)
                IN  IF ~isImported(KReg, component) /\ hasConsumers(component)
                    THEN kRun' = [kRun EXCEPT !.pc = "every", !.e = 1, !.report = r2]
                    ELSE kRun' = [kRun EXCEPT !.i = @ + 1, !.report = r2]
    /\ UNCHANGED <<gvars, xvars, rvars, dvars, svars, cvars, tvars, nvars, hvars>>

\* component.usedBy.every(...): the callback is entered for consumer e, or
\* every() has run through and the component is pushed as orphaned
DetectEvery ==
    /\ kRun.pc = "every"
    /\ LET component == getAllComponents(KReg)[kRun.i]
       IN  IF kRun.e > Len(component.usedBy)
           THEN kRun' = [kRun EXCEPT !.pc = "component", !.i = @ + 1,
                           !.report.orphanedComponents =
                               Append(@, [id |-> component.id, reason |-> "orphaned"])]
           ELSE LET consumer == getComponent(KReg, component.usedBy[kRun.e])
                IN  IF consumer.isNull
                    THEN kRun' = [kRun EXCEPT !.pc = "component", !.i = @ + 1]
                    ELSE kRun' = [kRun EXCEPT !.pc = "used",
                                    !.stack = <<[id |-> consumer.value.id, j |-> 1]>>]
    /\ UNCHANGED <<gvars, xvars, rvars, dvars, svars, cvars, tvars, nvars, hvars>>

\* one step of isComponentUsed in the frame on top of the call stack: a value
\* comes back from a callee, the frame returns, or it calls itself for the next
\* registered consumer
DetectUsed ==
    /\ kRun.pc = "used"
    /\ IF kRun.ret # "none"
       THEN IF kRun.stack = <<>>
            THEN \* back in the every() callback: consumer && !isComponentUsed(...)
                 IF kRun.ret = "false"
                 THEN kRun' = [kRun EXCEPT !.pc = "every", !.e = @ + 1, !.ret = "none"]
                 ELSE kRun' = [kRun EXCEPT !.pc = "component", !.i = @ + 1, !.ret = "none"]
            ELSE IF kRun.ret = "true"
                 THEN kRun' = [kRun EXCEPT !.stack = SubSeq(@, 1, Len(@) - 1)]
                 ELSE kRun' = [kRun EXCEPT !.stack[Len(kRun.stack)].j = @ + 1,
                                           !.ret = "none"]
       ELSE LET frame == kRun.stack[Len(kRun.stack)]
                component == getComponent(KReg, frame.id).value
            IN  IF Len(component.usedBy) = 0 \/ frame.j > Len(component.usedBy)
                THEN kRun' = [kRun EXCEPT !.stack = SubSeq(@, 1, Len(@) - 1),
                                          !.ret = "false"]
                ELSE LET consumer == getComponent(KReg, component.usedBy[frame.j])
                     IN  IF consumer.isNull
                         THEN kRun' = [kRun EXCEPT !.stack[Len(kRun.stack)].j = @ + 1]
                         ELSE /\ Len(kRun.stack) < MaxDepth
                              /\ kRun' = [kRun EXCEPT !.stack =
                                           Append(@, [id |-> consumer.value.id, j |-> 1])]
    /\ UNCHANGED <<gvars, xvars, rvars, dvars, svars, cvars, tvars, nvars, hvars>>

DeadCodeNext ==
    \/ \E c \in KComponents : kRun.pc = "idle" /\ AddComponent("R", c)
    \/ \E e \in KEdges : kRun.pc = "idle" /\ AddImport("R", e)
    \/ DetectStart
    \/ DetectComponent
    \/ DetectEvery
    \/ DetectUsed

DeadCodeSpec == RegistryInit /\ [][DeadCodeNext]_vars

(***************************************************************************)
(* Object sharing between the registry and its snapshot: components are    *)
(* objects on a heap, the registry and the snapshot hold references        *)
(***************************************************************************)
\* the records behind an array of references
Deref(heap, refs) == [i \in 1..Len(refs) |-> heap[refs[i]]]

\* the heap after the objects behind refs were given the values of records
RECURSIVE WriteBack(_, _, _, _)
WriteBack(heap, refs, records, i) ==
    IF i > Len(refs) THEN heap
    ELSE WriteBack([heap EXCEPT ![refs[i]] = records[i]], refs, records, i + 1)

\* this.components.set(component.id, component) for each reference of refs
RECURSIVE SetRefs(_, _, _, _)
SetRefs(heap, m, refs, i) ==
    IF i > Len(refs) THEN m
    ELSE SetRefs(heap, MapPut(m, heap[refs[i]].id, refs[i]), refs, i + 1)

\* getAllComponents().find((c) => c.name === componentName && c.filePath === filePath)
FindByName(heap, refs, componentName, filePath) ==
    LET hits == {i \in 1..Len(refs) : /\ heap[refs[i]].name = componentName
                                      /\ heap[refs[i]].filePath = filePath}
    IN  IF hits = {} THEN 0
        ELSE refs[CHOOSE i \in hits : \A j \in hits : i <= j]

\* the objects the component detector hands to the registry
HComponents ==
    {[id |-> "a", name |-> "A", filePath |-> "a.tsx", props |-> <<>>,
      children |-> <<"B">>, usedBy |-> <<>>],
     [id |-> "b", name |-> "B", filePath |-> "b.tsx", props |-> <<>>,
      children |-> <<>>, usedBy |-> <<>>]}

\* what the type checker extracts for a component
HProps == {<<>>, <<[name |-> "size", type |-> "string", required |-> TRUE]>>}

\* registry.addComponent with a freshly allocated object
HAddComponent(c) ==
    /\ Len(hHeap) < MaxObjects
    /\ hHeap' = Append(hHeap, c)
    /\ hComponents' = MapPut(hComponents, c.id, Len(hHeap) + 1)
    /\ UNCHANGED <<hSnap, hAtCreation, gvars, xvars, rvars, dvars, svars, cvars, tvars,
                   nvars, kvars>>

\* createSnapshot: components is Array.from(this.components.values())
HCreateSnapshot ==
    /\ hSnap' = [taken |-> TRUE, components |-> MapValues(hComponents)]
    /\ hAtCreation' = Deref(hHeap, MapValues(hComponents))
    /\ UNCHANGED <<hHeap, hComponents, gvars, xvars, rvars, dvars, svars, cvars, tvars,
                   nvars, kvars>>

\* analyzeProject: crossReferenceComponents(registry.getAllComponents()) writes
\* usedBy and children of the objects in place; the registry is then cleared
\* and the same objects are added again
HCrossReference ==
    /\ LET refs == MapValues(hComponents)
           heap == WriteBack(hHeap, refs, crossReferenceComponents(Deref(hHeap, refs)), 1)
       IN  /\ hHeap' = heap
           /\ hComponents' = SetRefs(heap, <<>>, refs, 1)
    /\ UNCHANGED <<hSnap, hAtCreation, gvars, xvars, rvars, dvars, svars, cvars, tvars,
                   nvars, kvars>>

\* analyzeProject, phase 2: comp.props = props on the object found in the registry
HExtractProps(componentName, filePath, props) ==
    /\ LET comp == FindByName(hHeap, MapValues(hComponents), componentName, filePath)
       IN  hHeap' = IF comp # 0 /\ Len(props) > 0
                    THEN [hHeap EXCEPT ![comp].props = props]
                    ELSE hHeap
    /\ UNCHANGED <<hComponents, hSnap, hAtCreation, gvars, xvars, rvars, dvars, svars, cvars,
                   tvars, nvars, kvars>>

SharingInit ==
    /\ SharingIdle
    /\ DeadCodeIdle
    /\ SignificanceIdle
    /\ CIIdle
    /\ StoreIdle
    /\ NotesIdle
    /\ GraphIdle
    /\ XrefIdle
    /\ RegistryIdle
    /\ DiffIdle

SharingNext ==
    \/ \E c \in HComponents : HAddComponent(c)
    \/ HCreateSnapshot
    \/ HCrossReference
    \/ \E c \in HComponents, p \in HProps : HExtractProps(c.name, c.filePath, p)

SharingSpec == SharingInit /\ [][SharingNext]_vars

(***************************************************************************)
(* Properties of the DependencyGraph                                       *)
(***************************************************************************)

\* C2: whenever detectCycles() or topologicalSort() has just been called on a
\* graph built by addEdge, the cycle list is non-empty exactly when the
\* topological sort of the same graph is null.
C2_Duality ==
    /\ gRet.op = "detectCycles" =>
         ((gRet.cycles # <<>>) <=> topologicalSort(nodes).isNull)
    /\ gRet.op = "topologicalSort" =>
         (gRet.sorted.isNull <=> (detectCycles(nodes) # <<>>))

\* a graph with a self-loop and a second, overlapping cycle has been examined
C2_Witness ==
    /\ gRet.op = "detectCycles"
    /\ Len(gRet.cycles) >= 2
    /\ \E n \in NodeIds : <<n, n>> \in edgesAdded
    /\ topologicalSort(nodes).isNull

\* C3: a non-null topologicalSort() lists every node exactly once and places
\* the source of every edge passed to addEdge before its target.
C3_ValidLinearization ==
    (gRet.op = "topologicalSort" /\ ~gRet.sorted.isNull) =>
        /\ Range(gRet.sorted.value) = Range(NodeKeys(nodes))
        /\ NoDup(gRet.sorted.value)
        /\ \A e \in edgesAdded :
              IndexOf(gRet.sorted.value, e[1]) < IndexOf(gRet.sorted.value, e[2])

\* an acyclic graph with three edges has been sorted
C3_Witness ==
    /\ gRet.op = "topologicalSort"
    /\ ~gRet.sorted.isNull
    /\ Cardinality(edgesAdded) = 3

\* C10: the exclusive dependencies of id share nothing with the transitive
\* dependencies of any other id of allTopLevel, and the exclusive sets of two
\* distinct ids of allTopLevel are disjoint.
C10_Exclusivity ==
    gRet.op = "getExclusiveDependencies" =>
        /\ \A o \in Range(gRet.allTopLevel) \ {gRet.id} :
              Range(gRet.deps) \cap Range(getTransitiveDependencies(nodes, o)) = {}
        /\ \A x, y \in Range(gRet.allTopLevel) :
              x # y =>
                Range(getExclusiveDependencies(nodes, x, gRet.allTopLevel))
                  \cap Range(getExclusiveDependencies(nodes, y, gRet.allTopLevel)) = {}

\* id keeps an exclusive dependency while another dependency of id is shared
\* with a different top-level id and therefore left out
C10_Witness ==
    /\ gRet.op = "getExclusiveDependencies"
    /\ gRet.deps # <<>>
    /\ gRet.id \in Range(gRet.allTopLevel)
    /\ \E o \in Range(gRet.allTopLevel) \ {gRet.id} :
          Range(getTransitiveDependencies(nodes, gRet.id))
            \cap Range(getTransitiveDependencies(nodes, o)) # {}

\* C11: whenever getSharedDependencies(a, b) has just been called, the array
\* it returned holds no id twice and, read as a set, is the intersection of
\* what getTransitiveDependencies(a) and getTransitiveDependencies(b) return
\* on the same graph.
C11_SharedIsIntersection ==
    gRet.op = "getSharedDependencies" =>
        /\ NoDup(gRet.deps)
        /\ Range(gRet.deps) =
              Range(getTransitiveDependencies(nodes, gRet.idA))
              \cap Range(getTransitiveDependencies(nodes, gRet.idB))

\* the case of the test: two ids whose closures overlap without being equal,
\* the shared part holding a dependency that is indirect for both
C11_Witness ==
    /\ gRet.op = "getSharedDependencies"
    /\ gRet.idA # gRet.idB
    /\ gRet.deps # <<>>
    /\ Range(gRet.deps) # Range(getTransitiveDependencies(nodes, gRet.idA))
    /\ \E d \in Range(gRet.deps) : d \notin Range(getDependencies(nodes, gRet.idB))

\* the targets of the edges of E that leave a node of S
EdgeStep(E, S) == {e[2] : e \in {d \in E : d[1] \in S}}

RECURSIVE EdgeGrow(_, _)
EdgeGrow(E, R) ==
    LET n == R \cup EdgeStep(E, R)
    IN  IF n = R THEN R ELSE EdgeGrow(E, n)

\* the nodes reached from id by one or more edges of E
ReachPlus(E, id) == EdgeGrow(E, EdgeStep(E, {id}))

Reversed(E) == {<<e[2], e[1]>> : e \in E}

\* C21: getTransitiveDependencies(id) returns, each once, exactly the nodes
\* other than id that one or more outgoing edges lead to from id, also when
\* id lies on a cycle; getImpactedModules(id) does the same over incoming
\* edges; and for x # y, x is impacted by y exactly when y is a transitive
\* dependency of x.
C21_Closure ==
    /\ gRet.op = "getTransitiveDependencies" =>
          /\ NoDup(gRet.deps)
          /\ Range(gRet.deps) = ReachPlus(edgesAdded, gRet.id) \ {gRet.id}
    /\ gRet.op = "getImpactedModules" =>
          /\ NoDup(gRet.deps)
          /\ Range(gRet.deps) = ReachPlus(Reversed(edgesAdded), gRet.id) \ {gRet.id}
    /\ gRet.op \in {"getTransitiveDependencies", "getImpactedModules"} =>
          \A x, y \in NodeIds :
             x # y => ((x \in Range(getImpactedModules(nodes, y)))
                         <=> (y \in Range(getTransitiveDependencies(nodes, x))))

\* the closure of an id that lies on a cycle through two other nodes
C21_Witness ==
    /\ gRet.op = "getTransitiveDependencies"
    /\ gRet.id \in ReachPlus(edgesAdded, gRet.id)
    /\ Len(gRet.deps) = 2
    /\ <<gRet.id, gRet.id>> \notin edgesAdded

\* C22 as stated: every reported cycle is the bare slice of the path stack,
\* so no node appears in it twice.
C22_Original ==
    gRet.op = "detectCycles" =>
        \A i \in 1..Len(gRet.cycles) : NoDup(gRet.cycles[i])

\* C22, amended: every reported cycle is a stack slice followed by the
\* revisited node again: it has at least two entries, its first and last
\* entries are the same node, and the entries before the last are pairwise
\* distinct.
C22_ClosedSlice ==
    gRet.op = "detectCycles" =>
        \A i \in 1..Len(gRet.cycles) :
            LET c == gRet.cycles[i]
            IN  /\ Len(c) >= 2
                /\ c[1] = c[Len(c)]
                /\ NoDup(SubSeq(c, 1, Len(c) - 1))

\* the scenario a -> b -> c -> a: one cycle, reported with four entries
C22_Witness ==
    /\ gRet.op = "detectCycles"
    /\ edgesAdded = {<<"a", "b">>, <<"b", "c">>, <<"c", "a">>}
    /\ Len(gRet.cycles) = 1
    /\ Len(gRet.cycles[1]) = 4
    /\ Range(gRet.cycles[1]) = {"a", "b", "c"}

\* the endpoints of the edges of E
Endpoints(E) == {e[1] : e \in E} \cup {e[2] : e \in E}

\* C27: after any sequence of addEdge calls (or fromImports), v is a
\* dependency of u exactly when u is a dependent of v, both arrays hold no id
\* twice and match the edges added, every endpoint of an added edge is a
\* node, nodeCount is the number of distinct endpoints and edgeCount the
\* number of distinct (source, target) pairs, however often a pair was added.
C27_Adjacency ==
    /\ \A u, v \in NodeIds :
          /\ (v \in Range(getDependencies(nodes, u))) <=> (u \in Range(getDependents(nodes, v)))
          /\ (v \in Range(getDependencies(nodes, u))) <=> (<<u, v>> \in edgesAdded)
    /\ \A u \in NodeIds : NoDup(getDependencies(nodes, u)) /\ NoDup(getDependents(nodes, u))
    /\ \A n \in Endpoints(edgesAdded) : HasNode(nodes, n)
    /\ nodeCount(nodes) = Cardinality(Endpoints(edgesAdded))
    /\ edgeCount(nodes) = Cardinality(edgesAdded)

\* two nodes joined in both directions, one of them with a self-loop: three
\* edges, two nodes
C27_Witness ==
    /\ Cardinality(edgesAdded) = 3
    /\ \E n \in NodeIds : <<n, n>> \in edgesAdded
    /\ nodeCount(nodes) = 2
    /\ edgeCount(nodes) = 3
    /\ \E u, v \in NodeIds : u # v /\ getDependencies(nodes, u) = <<u, v>>

\* the pairs of consecutive entries of a reported cycle
ReportedEdges(c) == {<<c[i], c[i + 1]>> : i \in 1..(Len(c) - 1)}

\* C29: every cycle detectCycles() reports is a cycle of the graph: each
\* pair of consecutive entries is an edge that addEdge added, and along these
\* edges every entry reaches every entry, the last one the first one included.
C29_GenuineCycle ==
    gRet.op = "detectCycles" =>
        \A i \in 1..Len(gRet.cycles) :
            LET c == gRet.cycles[i]
            IN  /\ ReportedEdges(c) # {}
                /\ ReportedEdges(c) \subseteq edgesAdded
                /\ \A x, y \in Range(c) : y \in ReachPlus(ReportedEdges(c), x)

\* a two-node cycle reported on a graph that has a third node hanging off it,
\* reached by the search before the edge that closes the cycle
C29_Witness ==
    /\ gRet.op = "detectCycles"
    /\ Len(gRet.cycles) = 1
    /\ Len(gRet.cycles[1]) = 3
    /\ nodeCount(nodes) = 3
    /\ Cardinality(edgesAdded) = 3
    /\ \E n \in NodeIds :
          /\ n \notin Range(gRet.cycles[1])
          /\ <<gRet.cycles[1][1], n>> \in edgesAdded
          /\ getDependencies(nodes, gRet.cycles[1][1])[1] = n

(***************************************************************************)
(* Properties of detectDeadCode                                            *)
(***************************************************************************)
\* the ids registered in reg that pass the test ok
KRegistered(reg, ok(_)) ==
    {c.id : c \in {d \in Range(getAllComponents(reg)) : ok(d)}}

\* the usedBy relation of reg among the components that pass the test ok
UsedByEdges(reg, ok(_)) ==
    {p \in KRegistered(reg, ok) \X KRegistered(reg, ok) :
        p[2] \in Range(getComponent(reg, p[1]).value.usedBy)}

\* the usedBy relation contains a cycle among registered, non-imported components
UsedByCycle(reg) ==
    LET notImported(c) == ~isImported(reg, c)
    IN  \E id \in KRegistered(reg, notImported) :
            id \in ReachPlus(UsedByEdges(reg, notImported), id)

\* a usedBy cycle of registered components can be reached from id
ReachesCycle(reg, id) ==
    LET any(c) == TRUE
        U == UsedByEdges(reg, any)
    IN  \E n \in {id} \cup ReachPlus(U, id) : n \in ReachPlus(U, n)

\* some non-imported component lists, before any unregistered id, a registered
\* consumer from which a usedBy cycle can be reached
CallsIntoCycle(reg) ==
    \E c \in Range(getAllComponents(reg)) :
        /\ ~isImported(reg, c)
        /\ \E e \in 1..Len(c.usedBy) :
              /\ \A j \in 1..e : hasComponent(reg, c.usedBy[j])
              /\ ReachesCycle(reg, c.usedBy[e])

\* C23 as stated: on a registry whose usedBy relation contains a cycle among
\* registered, non-imported components, detectDeadCode never returns.
C23_Original == kRun.pc = "done" => ~UsedByCycle(KReg)

\* C23, amended: detectDeadCode never returns when some non-imported
\* component lists, before any unregistered id, a registered consumer from
\* which a usedBy cycle of registered components is reachable; and only then
\* does the isComponentUsed recursion grow deeper than there are components.
C23_RecursesIntoCycle ==
    /\ kRun.pc = "done" => ~CallsIntoCycle(KReg)
    /\ Len(kRun.stack) > size(KReg) => CallsIntoCycle(KReg)

\* the example of the claim: a.usedBy = [b], b.usedBy = [a], neither imported;
\* the recursion is MaxDepth frames deep, alternating between the two
C23_Witness ==
    /\ kRun.pc = "used"
    /\ Len(kRun.stack) = MaxDepth
    /\ size(KReg) = 2
    /\ KReg.imports = <<>>
    /\ hasComponent(KReg, "a")
    /\ hasComponent(KReg, "b")
    /\ getComponent(KReg, "a").value.usedBy = <<"b">>
    /\ getComponent(KReg, "b").value.usedBy = <<"a">>

\* the registered ids in use: imported, or consumed by a component in use
RECURSIVE InUseGrow(_, _)
InUseGrow(reg, S) ==
    LET n == S \cup {c.id : c \in {d \in Range(getAllComponents(reg)) :
                                     Range(d.usedBy) \cap S # {}}}
    IN  IF n = S THEN S ELSE InUseGrow(reg, n)

InUse(reg) ==
    InUseGrow(reg, {c.id : c \in {d \in Range(getAllComponents(reg)) : isImported(reg, d)}})

\* C24: when detectDeadCode has returned, no component it reports as
\* orphaned has a consumer that is in use (imported, or consumed by a
\* component that is in use).
C24_OrphanedOnlyIfConsumersUnused ==
    kRun.pc = "done" =>
        \A i \in 1..Len(kRun.report.orphanedComponents) :
            Range(getComponent(KReg, kRun.report.orphanedComponents[i].id).value.usedBy)
              \cap InUse(KReg) = {}

\* C25: the component records of a snapshot stay as they were when
\* createSnapshot returned, whatever is done afterwards to the components the
\* registry holds.
C25_SnapshotUnaffected ==
    hSnap.taken => Deref(hHeap, hSnap.components) = hAtCreation

(***************************************************************************)
(* Properties of the cross-referencer                                      *)
(***************************************************************************)
Bidirectional(l) ==
    \A i, j \in 1..Len(l) :
        (l[j].id \in Range(l[i].children)) <=> (l[i].id \in Range(l[j].usedBy))

XNameSet(l) == {l[i].name : i \in 1..Len(l)}
XIdSet(l) == {l[i].id : i \in 1..Len(l)}

\* the list is as the detectors emit it: no back references yet, and every
\* children entry that names no component of the list is not a component id
FreshInput(l) ==
    /\ \A i \in 1..Len(l) : l[i].usedBy = <<>>
    /\ \A i \in 1..Len(l) : \A n \in Range(l[i].children) :
          n \notin XNameSet(l) => n \notin XIdSet(l)

\* C1 as stated: after one application to any list with pairwise distinct
\* ids, B.id is in A.children exactly when A.id is in B.usedBy.
C1_Original == xRuns = 1 => Bidirectional(xOut)

\* C1 amended: the equivalence holds after one application to a list with
\* pairwise distinct non-empty ids whose usedBy arrays are empty on entry and
\* whose unresolved children entries are not component ids.
C1_Bidirectional == (xRuns = 1 /\ FreshInput(xIn)) => Bidirectional(xOut)

\* a fresh list in which one component refers to another one and to itself
C1_Witness ==
    /\ xRuns = 1
    /\ FreshInput(xIn)
    /\ Len(xOut) = 2
    /\ xOut[2].id \in Range(xOut[1].children)
    /\ xOut[1].id \in Range(xOut[1].children)
    /\ xOut[2].usedBy = <<xOut[1].id>>

\* no id of the list is the name of a component with a different id
IdsAreNotForeignNames(l) ==
    \A i, j \in 1..Len(l) : l[i].id = l[j].name => i = j

\* C5 as stated: a second application changes no children and no usedBy array.
C5_Original == xRuns = 2 => xOut = xPrev

\* C5 amended: a second application changes nothing provided no component id
\* of the list equals the name of a component with a different id.
C5_Idempotent == (xRuns = 2 /\ IdsAreNotForeignNames(xIn)) => xOut = xPrev

\* the second application met resolved ids, an unresolved name and a
\* non-empty usedBy
C5_Witness ==
    /\ xRuns = 2
    /\ IdsAreNotForeignNames(xIn)
    /\ Len(xOut) = 2
    /\ xOut[1].children = <<xOut[2].id, "A">>
    /\ xOut[2].usedBy = <<xOut[1].id>>
    /\ xIn[1].children # xOut[1].children

FirstNamed(l, n) == CHOOSE i \in 1..Len(l) : l[i].name = n /\ \A j \in 1..(i - 1) : l[j].name # n
LastNamed(l, n) == CHOOSE i \in 1..Len(l) : l[i].name = n /\ \A j \in (i + 1)..Len(l) : l[j].name # n

\* a child reference by a name that two components share is wired to pick(list, name)
CollisionResolvedTo(pick(_, _)) ==
    \A r \in 1..Len(xIn) : \A n \in Range(xIn[r].children) :
        (\E i, j \in 1..Len(xIn) : i # j /\ xIn[i].name = n /\ xIn[j].name = n) =>
            /\ xOut[pick(xIn, n)].id \in Range(xOut[r].children)
            /\ xOut[r].id \in Range(xOut[pick(xIn, n)].usedBy)

\* C6 as stated: on a name collision the reference goes to the component that
\* occurs first in the list.
C6_Original == xRuns = 1 => CollisionResolvedTo(FirstNamed)

\* C6 amended: on a name collision the reference goes to the component that
\* occurs last in the list.
C6_LastWins == xRuns = 1 => CollisionResolvedTo(LastNamed)

\* two components share a name, the first one refers to that name, and the
\* reference has been wired to the second one only
C6_Witness ==
    /\ xRuns = 1
    /\ Len(xIn) = 2
    /\ xIn[1].name = xIn[2].name
    /\ xIn[1].name \in Range(xIn[1].children)
    /\ xIn[2].usedBy = <<>>
    /\ xOut[2].usedBy = <<xOut[1].id>>
    /\ xOut[1].id \notin Range(xOut[1].children)

(***************************************************************************)
(* Properties of the ComponentRegistry                                     *)
(***************************************************************************)
\* the four arrays of a snapshot as a reader sees them
SnapshotArrays(snapshot) ==
    [components |-> snapshot.components,
     imports |-> ArrayItems(snapshot.imports),
     bundleInfo |-> snapshot.bundleInfo,
     health |-> snapshot.health]

\* C7: no registry operation changes the components, imports, bundleInfo
\* or health array of a snapshot that createSnapshot has returned.
C7_SnapshotFrame ==
    [][rRet'.op # "dropSnapshot" =>
         \A k \in 1..Len(snaps) : SnapshotArrays(snaps[k])' = SnapshotArrays(snaps[k])]_vars

\* a snapshot with four non-empty arrays is held while the registry has moved
\* on in all four collections
C7_Witness ==
    /\ Len(snaps) = 1
    /\ snaps[1].components # <<>> /\ ArrayItems(snaps[1].imports) # <<>>
    /\ snaps[1].bundleInfo # <<>> /\ snaps[1].health # <<>>
    /\ getAllComponents(regs["R"]) # snaps[1].components
    /\ regs["R"].imports # ArrayItems(snaps[1].imports)
    /\ getAllBundleInfo(regs["R"]) # snaps[1].bundleInfo
    /\ getAllHealth(regs["R"]) # snaps[1].health

\* what getAllComponents, getAllImports, getAllBundleInfo and getAllHealth return
Contents(reg) ==
    [components |-> getAllComponents(reg),
     imports |-> reg.imports,
     bundleInfo |-> getAllBundleInfo(reg),
     health |-> getAllHealth(reg)]

\* C8: after t.loadSnapshot(r.createSnapshot(sha, branch)) the four getAll*
\* results on t are those r had, whatever t held before.
C8_LoadRoundTrip ==
    [][rRet'.op = "loadFreshSnapshot" =>
         Contents(regs'[rRet'.to]) = Contents(regs[rRet'.from])]_vars

\* a registry that held something in all four collections has been loaded from
\* a snapshot of another registry that held other components and bundle
\* records, no imports and no health records
C8_Witness ==
    /\ rRet.op = "loadFreshSnapshot"
    /\ rRet.from # rRet.to
    /\ \A f \in {"components", "imports", "bundleInfo", "health"} :
          Contents(rRet.before)[f] # <<>>
    /\ regs[rRet.to].components # <<>>
    /\ regs[rRet.to].components # rRet.before.components
    /\ regs[rRet.to].bundleInfo # <<>>
    /\ regs[rRet.to].bundleInfo # rRet.before.bundleInfo
    /\ regs[rRet.to].imports = <<>>
    /\ regs[rRet.to].health = <<>>

\* ids reachable from id through the children of registered components,
\* found by iterating the one-step image to a fixed point
RECURSIVE ReachFrom(_, _)
ReachFrom(reg, S) ==
    LET next == S \cup UNION {Range(MapGet(reg.components, x).children) :
                               x \in {y \in S : MapHas(reg.components, y)}}
    IN  IF next = S THEN S ELSE ReachFrom(reg, next)

RECURSIVE TotalChildren(_, _)
TotalChildren(reg, i) ==
    IF i > Len(reg.components) THEN 0
    ELSE Len(reg.components[i].v.children) + TotalChildren(reg, i + 1)

ResultIds(result) == [i \in 1..Len(result) |-> result[i].id]

\* C9: getSubtree(root) ends after at most 1 + (number of children entries)
\* loop iterations and returns the registered components reachable from root
\* through children, each exactly once, the root component (if registered)
\* among them.
C9_Subtree ==
    rRet.op = "getSubtree" =>
        LET reg == regs["R"]
            reach == {x \in ReachFrom(reg, {rRet.id}) : MapHas(reg.components, x)}
        IN  /\ rRet.steps <= 1 + TotalChildren(reg, 1)
            /\ NoDup(ResultIds(rRet.value))
            /\ Range(ResultIds(rRet.value)) = reach
            /\ \A i \in 1..Len(rRet.value) :
                  rRet.value[i] = MapGet(reg.components, rRet.value[i].id)
            /\ hasComponent(reg, rRet.id) => rRet.id \in Range(ResultIds(rRet.value))

\* the traversal met a cycle back to the root, a component reached along two
\* paths and an id that is not registered
C9_Witness ==
    /\ rRet.op = "getSubtree"
    /\ rRet.id = "a"
    /\ ResultIds(rRet.value) = <<"a", "b">>
    /\ MapGet(regs["R"].components, "a").children = <<"b", "c">>
    /\ MapGet(regs["R"].components, "b").children = <<"c", "a">>
    /\ ~hasComponent(regs["R"], "c")


\* C15: a removeComponent(id) call returns true exactly when id was present;
\* then hasComponent(id) is false afterwards and size is one less, every other
\* component staying as it was. It returns false when id was absent and then
\* leaves the registry as it was. (A call that changes neither the registry
\* nor the recorded result is the removal of an absent id repeated.)
C15_RemoveComponent ==
    [][(rRet'.op = "removeComponent" /\ <<regs, rRet>>' # <<regs, rRet>>) =>
        /\ rRet'.value <=> hasComponent(regs["R"], rRet'.id)
        /\ rRet'.value =>
              /\ ~hasComponent(regs'["R"], rRet'.id)
              /\ size(regs'["R"]) = size(regs["R"]) - 1
              /\ \A id \in UIds \ {rRet'.id} :
                    getComponent(regs'["R"], id) = getComponent(regs["R"], id)
        /\ ~rRet'.value => regs' = regs]_vars

\* a component was removed from a registry that holds another one
C15_Witness ==
    /\ rRet.op = "removeComponent"
    /\ rRet.value
    /\ ~hasComponent(regs["R"], rRet.id)
    /\ size(regs["R"]) = 2

\* C16: after any sequence of addComponent, addComponents, removeComponent
\* and clear calls the registry holds at most one component per id, size is
\* the number of ids added and not removed or cleared since, and
\* getComponent(id) returns the record last added under id (undefined for
\* every other id).
C16_Upsert ==
    LET reg == regs["R"]
        live == rLive["R"]
    IN  /\ DistinctIds(getAllComponents(reg))
        /\ \A i \in 1..Len(reg.components) : reg.components[i].v.id = reg.components[i].k
        /\ size(reg) = Cardinality(DOMAIN live)
        /\ \A id \in UIds :
              IF id \in DOMAIN live
              THEN /\ ~getComponent(reg, id).isNull
                   /\ getComponent(reg, id).value = live[id]
              ELSE getComponent(reg, id).isNull

\* a record was added again under its id while another id was registered
C16_Witness ==
    /\ size(regs["R"]) = 2
    /\ rRet.op = "addComponent"
    /\ rRet.replaced
    /\ getComponent(regs["R"], rRet.id).value.children # <<>>

\* C18: whenever getConsumers(id) or getDependents(id) has just returned,
\* after any sequence of additions, removals and clears, every element of the
\* result is a component that the registry holds now, the result is empty for
\* an id that is not registered, and it lists exactly the registered ids of
\* usedBy (of children), in order.
C18_DanglingFiltered ==
    rRet.op \in {"getConsumers", "getDependents"} =>
        LET reg == regs["R"]
            result == rRet.found
        IN  /\ \A i \in 1..Len(result) :
                  /\ ~result[i].isNull
                  /\ hasComponent(reg, result[i].value.id)
                  /\ MapGet(reg.components, result[i].value.id) = result[i].value
            /\ ~hasComponent(reg, rRet.id) => result = <<>>
            /\ hasComponent(reg, rRet.id) =>
                  LET listed == IF rRet.op = "getConsumers"
                                THEN MapGet(reg.components, rRet.id).usedBy
                                ELSE MapGet(reg.components, rRet.id).children
                  IN  [i \in 1..Len(result) |-> result[i].value.id]
                        = FilterOut(listed, UIds \ ComponentIds(getAllComponents(reg)))

\* a query on a component that lists a removed component and a present one
C18_Witness ==
    /\ rRet.op \in {"getConsumers", "getDependents"}
    /\ hasComponent(regs["R"], rRet.id)
    /\ rRet.found # <<>>
    /\ LET listed == IF rRet.op = "getConsumers"
                     THEN MapGet(regs["R"].components, rRet.id).usedBy
                     ELSE MapGet(regs["R"].components, rRet.id).children
       IN  \E x \in Range(listed) : ~hasComponent(regs["R"], x)

\* C30: whenever getRootComponents() has just returned, it holds exactly
\* the registered components whose getConsumers is empty, and whenever
\* getLeafComponents() has just returned, exactly those whose getDependents
\* is empty.
C30_RootsAndLeaves ==
    /\ rRet.op = "getRootComponents" =>
          ComponentIds(rRet.components) =
            {c.id : c \in {d \in Range(getAllComponents(regs["R"])) :
                             getConsumers(regs["R"], d.id) = <<>>}}
    /\ rRet.op = "getLeafComponents" =>
          ComponentIds(rRet.components) =
            {c.id : c \in {d \in Range(getAllComponents(regs["R"])) :
                             ComponentRegistry_getDependents(regs["R"], d.id) = <<>>}}

SameShape(b, h) ==
    /\ PropNames(b.props) = PropNames(h.props)
    /\ \A i \in 1..Len(b.props), j \in 1..Len(h.props) :
          b.props[i].name = h.props[j].name =>
              /\ b.props[i].type = h.props[j].type
              /\ b.props[i].required = h.props[j].required
    /\ Len(b.children) = Len(h.children)
    /\ Len(b.dependencies) = Len(h.dependencies)
    /\ b.framework = h.framework

IdsOf(components) == [i \in 1..Len(components) |-> components[i].id]

\* the componentIds of an array of diff entries
EntryIds(entries) == {entries[i].componentId : i \in 1..Len(entries)}

\* C28: whenever diff(A, B) has just returned for snapshots with unique
\* component ids and unique prop names per component, then against diff(B, A):
\* the ids added one way are the ids removed the other way; a component held
\* by both has a modified entry both ways or neither way, propsAdded one way
\* is propsRemoved the other way and propsModified names the same props;
\* bundleDiff and healthDiff name the same components both ways, each once,
\* and every delta is the negation of the delta of that component the other
\* way.
C28_Antisymmetric ==
    dRet.op = "diff" =>
        LET f == dRet.value
            b == diff(dHead, dBase)
        IN  /\ IdsOf(f.components.added) = IdsOf(b.components.removed)
            /\ IdsOf(f.components.removed) = IdsOf(b.components.added)
            /\ EntryIds(f.components.modified) = EntryIds(b.components.modified)
            /\ \A i \in 1..Len(f.components.modified), j \in 1..Len(b.components.modified) :
                  f.components.modified[i].componentId = b.components.modified[j].componentId
                  => /\ f.components.modified[i].propsAdded = b.components.modified[j].propsRemoved
                     /\ f.components.modified[i].propsRemoved = b.components.modified[j].propsAdded
                     /\ Range(f.components.modified[i].propsModified)
                          = Range(b.components.modified[j].propsModified)
                     /\ Len(f.components.modified[i].propsModified)
                          = Len(b.components.modified[j].propsModified)
            /\ EntryIds(f.bundleDiff) = EntryIds(b.bundleDiff)
            /\ Len(f.bundleDiff) = Len(b.bundleDiff)
            /\ \A i \in 1..Len(f.bundleDiff), j \in 1..Len(b.bundleDiff) :
                  f.bundleDiff[i].componentId = b.bundleDiff[j].componentId
                  => /\ b.bundleDiff[j].delta.raw = 0 - f.bundleDiff[i].delta.raw
                     /\ b.bundleDiff[j].delta.gzip = 0 - f.bundleDiff[i].delta.gzip
            /\ EntryIds(f.healthDiff) = EntryIds(b.healthDiff)
            /\ Len(f.healthDiff) = Len(b.healthDiff)
            /\ \A i \in 1..Len(f.healthDiff), j \in 1..Len(b.healthDiff) :
                  f.healthDiff[i].componentId = b.healthDiff[j].componentId
                  => b.healthDiff[j].delta = 0 - f.healthDiff[i].delta

\* B adds a component, and the component both hold gained a prop and has two
\* props modified that B lists in the other order; sizes and score differ
C28_Witness ==
    /\ dRet.op = "diff"
    /\ dRet.value.components.added # <<>>
    /\ Len(dRet.value.components.modified) = 1
    /\ Len(dRet.value.components.modified[1].propsModified) = 2
    /\ dRet.value.components.modified[1].propsModified
         # diff(dHead, dBase).components.modified[1].propsModified
    /\ \E i \in 1..Len(dRet.value.bundleDiff) : dRet.value.bundleDiff[i].delta.gzip > 0
    /\ \E i \in 1..Len(dRet.value.healthDiff) : dRet.value.healthDiff[i].delta < 0

(***************************************************************************)
(* Properties of the CI significance policy                                *)
(***************************************************************************)

\* C12: whenever hasSignificantChanges(diff) has just returned, its value is
\* true exactly when added, removed or modified is non-empty, or some
\* bundleDiff entry has a gzip delta above 1024 or below -1024, or some
\* healthDiff entry has a delta above 10 or below -10. A gzip delta of exactly
\* 1024 or -1024, a health delta of exactly 10 or -10 and a change of the raw
\* size alone do not make a diff significant.
C12_Significance ==
    sRet.op = "hasSignificantChanges" =>
        (sRet.value <=>
            \/ sDiff.components.added # <<>>
            \/ sDiff.components.removed # <<>>
            \/ sDiff.components.modified # <<>>
            \/ \E i \in 1..Len(sDiff.bundleDiff) :
                  \/ sDiff.bundleDiff[i].delta.gzip > 1024
                  \/ sDiff.bundleDiff[i].delta.gzip < -1024
            \/ \E i \in 1..Len(sDiff.healthDiff) :
                  \/ sDiff.healthDiff[i].delta > 10
                  \/ sDiff.healthDiff[i].delta < -10)

\* the boundary: a raw change with a gzip delta of exactly -1024 and a health
\* delta of exactly 10, no component change, reported as not significant
C12_Witness ==
    /\ sRet.op = "hasSignificantChanges"
    /\ ~sRet.value
    /\ \E i \in 1..Len(sDiff.bundleDiff) :
          sDiff.bundleDiff[i].delta.gzip = -1024 /\ sDiff.bundleDiff[i].delta.raw # 0
    /\ \E i \in 1..Len(sDiff.healthDiff) : sDiff.healthDiff[i].delta = 10

\* C13: a report is sent to a platform the run is configured for (GitHub with
\* token, owner, repo and PR number; GitLab with its merge request variables)
\* only if hasSignificantChanges(diff) was true for the diff of that run.
C13_PostOnlyIfSignificant ==
    ciLast.op = "runCI" =>
        ((\/ "github" \in ciLast.posts /\ ciLast.env.github
          \/ "gitlab" \in ciLast.posts /\ ciLast.env.gitlab)
         => ciLast.significant)

\* C14: of two consecutive runCI runs with the default basePath and
\* outputPath, the second diffs against the snapshot file the first one
\* wrote.
C14_BaseIsPreviousRun ==
    (/\ ciLast.op = "runCI" /\ ciPrev.op = "runCI"
     /\ ciLast.basePath = DefaultPath /\ ciLast.outputPath = DefaultPath
     /\ ciPrev.basePath = DefaultPath /\ ciPrev.outputPath = DefaultPath)
    => /\ ciLast.baseCreatedAt = ciPrev.now
       /\ ciLast.base = JsonRoundTrip(ciPrev.head)

(***************************************************************************)
(* Properties of the SnapshotStore                                         *)
(***************************************************************************)

\* C19: whenever loadLatestSnapshot() has just returned, after saveSnapshot
\* calls made at strictly increasing times, it holds the data handed to the
\* most recent saveSnapshot call, and it is null only when nothing was saved.
C19_LatestIsLastSaved ==
    tRet.op = "loadLatestSnapshot" =>
        /\ tRet.value.isNull <=> tLast.isNull
        /\ ~tLast.isNull => tRet.value.data = tLast.data

C20_SingleNote ==
    /\ nAllOk => Cardinality({i \in 1..Len(nNotes) : nNotes[i].marker}) <= 1
    /\ (nLast.op = "write" /\ nLast.ok /\ nLast.hadNote) => nLast.method = "PUT"
    /\ (nLast.op = "write" /\ ~nLast.ok) => nLast.method = "POST"

====
